---- MODULE Spec2Model ----
(***************************************************************************)
(* Model of the structured-output pull-request reviewer                    *)
(* (src/actions/autonomous-pr-review/scripts/review-agent.mjs, the variant *)
(* of lines 347-662): the agent session driver runClaudeReview, the output *)
(* normalizer normalizeReviewResult, the publication step of main and the  *)
(* failure handler main().catch (Spec); next to it the text script of      *)
(* lines 1-178 and of src/unnamed/part_000 (SpecAgents for the two scripts *)
(* with an agent session), the single-call scripts of lines 179-345 and of *)
(* src/unnamed/part_001 (SpecSingleCall, SpecAll for every script and     *)
(* SpecReviewAgent for the three scripts of review-agent.mjs),             *)
(* two invocations on one pull request (SpecConcurrent) and the            *)
(* tool-approval callback (SpecToolApproval).                              *)
(*                                                                         *)
(* JavaScript values are tagged records ([t |-> "null"], [t |-> "string",  *)
(* s |-> ...], ...).  A JavaScript string is a sequence of text pieces;    *)
(* its characters are the characters of its pieces in order, and trim(),   *)
(* toLowerCase(), includes(), indexOf(), slice(), join(), Number(), the    *)
(* tests of an empty string and the comparisons with a literal are         *)
(* computed character by character.  A JavaScript number is held as twice  *)
(* its value, so that 1.5 is representable next to the integers; a number  *)
(* that is no multiple of 0.5 carries a count of decimal places as well    *)
(* (Decimal).  The numbers of the model are thus the decimals of at most   *)
(* ten significant digits; each stands for the double nearest to it, and   *)
(* no two of them stand for the same double.                               *)
(***************************************************************************)
EXTENDS Integers, Sequences, FiniteSets, TLC

VARIABLES
    stream,            \* the messages the agent stream will yield, in order
    pos,               \* how many of them the for-await loop has taken
    finalOutput,       \* runClaudeReview: let finalOutput
    assistantFallback, \* runClaudeReview: let assistantFallback
    structuredOutput,  \* runClaudeReview: let structuredOutput
    structured,        \* main: const { structured, ... }
    fallbackText,      \* main: const { ..., fallbackText }
    review,            \* main: const review
    err,               \* the error main() rejected with, handed to .catch
    calls,             \* the platform write calls issued so far, in order
    exitStatus,        \* the process exit status, "running" until it exits
    pc,                \* where the invocation is
    thread,            \* the pull request's thread on the platform
    fetches,           \* the platform read calls issued so far, in order
    userRequest,       \* main: const userRequest
    userRequestBlock,  \* main: const userRequestBlock
    script,            \* which of the reviewer scripts the process runs
    diff,              \* single-call main: const diff
    maxDiffChars,      \* single-call: const maxDiffChars
    clippedDiff,       \* single-call main: const clippedDiff
    response,          \* single-call main: what messages.create answers
    toolRequests,      \* the tool requests the agent will submit for approval
    decisions,         \* the answers of canUseTool, in order
    invs,              \* the invocations that run concurrently on one thread
    models,            \* single-call handler: const models
    textOfMain         \* text-posting main: const text

vars == <<stream, pos, finalOutput, assistantFallback, structuredOutput,
          structured, fallbackText, review, err, calls, exitStatus, pc,
          thread, fetches, userRequest, userRequestBlock, script, diff,
          maxDiffChars, clippedDiff, response, toolRequests, decisions, invs,
          models, textOfMain>>

\* The variables of main's first step (the optional user request).
requestVars == <<fetches, userRequest, userRequestBlock>>

\* The variables the structured-output script does not use.
otherVars == <<script, diff, maxDiffChars, clippedDiff, response,
               toolRequests, decisions, invs, models, textOfMain>>

----------------------------------------------------------------------------
(* Bounds of the model.                                                    *)

MaxStream == 3
MaxComments == 2
MaxThread == 2
MaxDiff == 3
MaxChars == 2
MaxToolRequests == 2

----------------------------------------------------------------------------
(* JavaScript values.                                                      *)

Null == [t |-> "null"]
Undefined == [t |-> "undefined"]
NaN == [t |-> "NaN"]
Infinity == [t |-> "Infinity"]
NegInfinity == [t |-> "-Infinity"]
Str(s) == [t |-> "string", s |-> s]
Num(twice) == [t |-> "number", twice |-> twice]
Bool(b) == [t |-> "boolean", b |-> b]
Arr(items) == [t |-> "array", items |-> items]

\* typeof-like tag of a value; a record without a tag (a content block) is
\* an object.
TypeOf(value) == IF "t" \in DOMAIN value THEN value.t ELSE "object"

\* value === null || value === undefined
IsNullish(value) == TypeOf(value) \in {"null", "undefined"}

\* A review comment candidate as the agent may emit it; an absent field is
\* Undefined.
CommentObj(path, line, body, side, severity) ==
    [t |-> "object", path |-> path, line |-> line, body |-> body,
     side |-> side, severity |-> severity]

\* A structured payload; an absent field is Undefined.
PayloadObj(summary, comments) ==
    [t |-> "object", summary |-> summary, comments |-> comments]

\* The characters String.prototype.trim removes and the numeric grammar
\* skips (WhiteSpace and LineTerminator), as far as a text of the model can
\* hold them: space, line feed, tab, carriage return, form feed and
\* vertical tab (U+000B, written as the character itself).  The others
\* (U+00A0, U+FEFF, U+2028, ...) are no characters of the model's texts.
Whitespace == {" ", "\n", "\t", "\r", "\f", ""}

\* The character of a piece at a position, "" outside of the piece.
CharAt(p, i) == IF i >= 1 /\ i <= Len(p) THEN SubSeq(p, i, i) ELSE ""

\* The characters of a string in one piece.
RECURSIVE Flat(_)
Flat(s) == IF s = <<>> THEN "" ELSE Head(s) \o Flat(Tail(s))

\* A string without characters; a piece may be empty.
Empty(s) == Flat(s) = ""

RECURSIVE TrimStart(_)
TrimStart(s) ==
    IF s = <<>> THEN s
    ELSE IF Head(s) = "" THEN TrimStart(Tail(s))
    ELSE IF Head(Head(s)) \in Whitespace
         THEN TrimStart(<<Tail(Head(s))>> \o Tail(s))
         ELSE s

RECURSIVE TrimEnd(_)
TrimEnd(s) ==
    IF s = <<>> THEN s
    ELSE LET last == s[Len(s)]
             front == SubSeq(s, 1, Len(s) - 1)
         IN  IF last = "" THEN TrimEnd(front)
             ELSE IF CharAt(last, Len(last)) \in Whitespace
                  THEN TrimEnd(Append(front, SubSeq(last, 1, Len(last) - 1)))
                  ELSE s

\* String.prototype.trim
Trim(s) == TrimEnd(TrimStart(s))

\* JavaScript truthiness
Truthy(v) ==
    CASE v.t = "null" -> FALSE
      [] v.t = "undefined" -> FALSE
      [] v.t = "NaN" -> FALSE
      [] v.t = "string" -> ~Empty(v.s)
      [] v.t = "number" -> v.twice # 0
      [] v.t = "boolean" -> v.b
      [] OTHER -> TRUE

\* The digits of the numeric literals and their values.
DecimalDigit ==
    ("0" :> 0) @@ ("1" :> 1) @@ ("2" :> 2) @@ ("3" :> 3) @@ ("4" :> 4)
    @@ ("5" :> 5) @@ ("6" :> 6) @@ ("7" :> 7) @@ ("8" :> 8) @@ ("9" :> 9)

HexDigit ==
    DecimalDigit
    @@ ("a" :> 10) @@ ("b" :> 11) @@ ("c" :> 12) @@ ("d" :> 13) @@ ("e" :> 14)
    @@ ("f" :> 15) @@ ("A" :> 10) @@ ("B" :> 11) @@ ("C" :> 12) @@ ("D" :> 13)
    @@ ("E" :> 14) @@ ("F" :> 15)

\* The first position from i on whose character is no digit of the set.
RunEnd(text, i, digits) ==
    LET stops == {j \in i..Len(text) : CharAt(text, j) \notin digits}
    IN  IF i > Len(text) THEN i
        ELSE IF stops = {} THEN Len(text) + 1
        ELSE CHOOSE j \in stops : \A k \in stops : j <= k

\* The value of the digits text[i .. j - 1] in a radix, after acc; the zeros
\* before the first other digit add nothing.
RECURSIVE DigitsValue(_, _, _, _, _)
DigitsValue(text, i, j, radix, acc) ==
    IF i >= j THEN acc
    ELSE IF acc = 0 /\ CharAt(text, i) = "0"
    THEN DigitsValue(text, RunEnd(text, i, {"0"}), j, radix, 0)
    ELSE DigitsValue(text, i + 1, j, radix, acc * radix + HexDigit[CharAt(text, i)])

RECURSIVE Pow10(_)
Pow10(n) == IF n = 0 THEN 1 ELSE 10 * Pow10(n - 1)

\* The number twice / (2 * 10^places) with as few places as it needs; a
\* multiple of 0.5 is the number Num holds.  A number of the model stands
\* for the double nearest to the decimal it holds, which is what the engine
\* keeps of a literal.
RECURSIVE Decimal(_, _)
Decimal(twice, places) ==
    IF places = 0 THEN Num(twice)
    ELSE IF twice % 10 = 0 THEN Decimal(twice \div 10, places - 1)
    ELSE [t |-> "number", twice |-> twice, places |-> places]

\* Whether mantissa * 10^scale, a value of magnitude 308, rounds to an
\* infinity: it does from 2^1024 - 2^970 = 1.797693134862315807...e308 on,
\* the middle of the largest double and 2^1024.  A mantissa of at most ten
\* digits is compared with the first ten digits of that bound.
RoundsToInfinity(mantissa, scale) ==
    IF scale >= 299 THEN mantissa > 1797693134 \div Pow10(scale - 299)
    ELSE IF scale >= 0 THEN mantissa * Pow10(scale) >= 2^1024 - 2^970
    ELSE mantissa >= (2^1024 - 2^970) * Pow10(-scale)

\* Whether mantissa * 10^scale, a value of magnitude -324, rounds to 0: it
\* does up to 2^-1075 = 2.4703282292062327...e-324, the middle of 0 and the
\* smallest double.  A mantissa of at most nine digits is compared with the
\* first nine digits of that bound.
RoundsToZero(mantissa, scale) ==
    IF scale >= -332 THEN mantissa <= 247032822 \div Pow10(scale + 332)
    ELSE mantissa * 2^1075 <= Pow10(-scale)

\* The value sign * mantissa * 10^scale of a literal whose first significant
\* digit has the decimal exponent magnitude: beyond the range of a double
\* it overflows to an infinity or underflows to 0.
ScaledNumber(sign, mantissa, scale, magnitude) ==
    IF magnitude > 308 \/ (magnitude = 308 /\ RoundsToInfinity(mantissa, scale))
    THEN (IF sign = 1 THEN Infinity ELSE NegInfinity)
    ELSE IF magnitude < -324 \/ (magnitude = -324 /\ RoundsToZero(mantissa, scale))
    THEN Num(0)
    ELSE IF scale >= 0 THEN Num(sign * 2 * mantissa * Pow10(scale))
    ELSE Decimal(sign * 2 * mantissa, -scale)

\* The literal with the integer digits text[1 .. intEnd - 1], the fraction
\* digits text[fracStart .. fracEnd - 1] and the exponent given; zeros and
\* fracZeros are the ends of the leading zeros of the two runs of digits.
DigitsToNumber(text, sign, intEnd, fracStart, fracEnd, exponent, zeros, fracZeros) ==
    IF zeros = intEnd /\ fracZeros = fracEnd THEN Num(0)
    ELSE ScaledNumber(
             sign,
             DigitsValue(text, fracStart, fracEnd, 10,
                         DigitsValue(text, 1, intEnd, 10, 0)),
             exponent - (fracEnd - fracStart),
             IF zeros < intEnd THEN (intEnd - zeros) - 1 + exponent
             ELSE exponent - (fracZeros - fracStart) - 1)

\* The digits of an exponent part as a number.  An exponent of ten or more
\* significant digits is held as 10^9: a string of the engine has fewer
\* than 2^29 characters, the digits of a literal move its magnitude by less
\* than that, and the number is an infinity or 0 for every such exponent.
ExponentValue(text, expStart, expEnd) ==
    IF expEnd - RunEnd(text, expStart, {"0"}) > 9 THEN Pow10(9)
    ELSE DigitsValue(text, expStart, expEnd, 10, 0)

\* ExponentPart, optional: e or E, an optional sign and at least one digit,
\* up to the end of the text.
ExponentPartToNumber(text, sign, intEnd, fracStart, fracEnd, expStart, expEnd) ==
    IF fracEnd = Len(text) + 1
    THEN DigitsToNumber(text, sign, intEnd, fracStart, fracEnd, 0,
                        RunEnd(text, 1, {"0"}), RunEnd(text, fracStart, {"0"}))
    ELSE IF CharAt(text, fracEnd) \notin {"e", "E"}
            \/ expEnd = expStart \/ expEnd # Len(text) + 1
         THEN NaN
         ELSE DigitsToNumber(text, sign, intEnd, fracStart, fracEnd,
                             IF CharAt(text, fracEnd + 1) = "-"
                             THEN -ExponentValue(text, expStart, expEnd)
                             ELSE ExponentValue(text, expStart, expEnd),
                             RunEnd(text, 1, {"0"}), RunEnd(text, fracStart, {"0"}))

\* The digits before and after the optional dot: at least one digit in all.
FractionToNumber(text, sign, intEnd, fracStart, fracEnd) ==
    IF (intEnd - 1) + (fracEnd - fracStart) < 1 THEN NaN
    ELSE ExponentPartToNumber(
             text, sign, intEnd, fracStart, fracEnd,
             IF CharAt(text, fracEnd + 1) \in {"+", "-"} THEN fracEnd + 2 ELSE fracEnd + 1,
             RunEnd(text,
                    IF CharAt(text, fracEnd + 1) \in {"+", "-"} THEN fracEnd + 2 ELSE fracEnd + 1,
                    DOMAIN DecimalDigit))

IntegerPartToNumber(text, sign, intEnd) ==
    FractionToNumber(text, sign, intEnd,
                     IF CharAt(text, intEnd) = "." THEN intEnd + 1 ELSE intEnd,
                     RunEnd(text, IF CharAt(text, intEnd) = "." THEN intEnd + 1 ELSE intEnd,
                            DOMAIN DecimalDigit))

\* StrUnsignedDecimalLiteral with its sign (1 or -1) applied: Infinity, or
\* digits with an optional fraction and an optional exponent part.
DecimalLiteralToNumber(text, sign) ==
    IF text = "Infinity" THEN (IF sign = 1 THEN Infinity ELSE NegInfinity)
    ELSE IntegerPartToNumber(text, sign, RunEnd(text, 1, DOMAIN DecimalDigit))

\* NonDecimalIntegerLiteral: 0x, 0o or 0b and the digits of that radix.
RadixOfPrefix(text) ==
    IF CharAt(text, 1) # "0" THEN 0
    ELSE CASE CharAt(text, 2) \in {"x", "X"} -> 16
           [] CharAt(text, 2) \in {"o", "O"} -> 8
           [] CharAt(text, 2) \in {"b", "B"} -> 2
           [] OTHER -> 0

\* The literal 0x.., 0o.. or 0b.. whose digits are all of its radix: the
\* digits hold 4, 3 or 1 bits each, and a value from 2^1024 - 2^970 on is
\* an infinity.
RadixLiteralToNumber(text, radix) ==
    IF (Len(text) - 2) * (CASE radix = 16 -> 4 [] radix = 8 -> 3 [] OTHER -> 1) <= 1020
       \/ DigitsValue(text, 3, Len(text) + 1, radix, 0) < 2^1024 - 2^970
    THEN Num(2 * DigitsValue(text, 3, Len(text) + 1, radix, 0))
    ELSE Infinity

\* Number(string): the trimmed text is read as a numeric literal, the empty
\* text is 0, a text that is no literal is NaN.
StringToNumber(s) ==
    LET text == Flat(Trim(s))
        radix == RadixOfPrefix(text)
        rest == SubSeq(text, 2, Len(text))
    IN  IF text = "" THEN Num(0)
        ELSE IF radix # 0
             THEN IF Len(text) > 2
                     /\ RunEnd(text, 3, {c \in DOMAIN HexDigit : HexDigit[c] < radix})
                        = Len(text) + 1
                  THEN RadixLiteralToNumber(text, radix)
                  ELSE NaN
        ELSE IF CharAt(text, 1) = "-" THEN DecimalLiteralToNumber(rest, -1)
        ELSE IF CharAt(text, 1) = "+" THEN DecimalLiteralToNumber(rest, 1)
        ELSE DecimalLiteralToNumber(text, 1)

\* The character of a decimal digit.
DigitChar(d) == SubSeq("0123456789", d + 1, d + 1)

\* The decimal digits of a natural number.
RECURSIVE IntegerDigits(_)
IntegerDigits(n) ==
    IF n < 10 THEN DigitChar(n)
    ELSE IntegerDigits(n \div 10) \o DigitChar(n % 10)

\* The digits after the point of rem / den, for rem < den and a den with
\* no prime factors but 2 and 5 (2 * 10^places for a number of the model).
RECURSIVE FractionDigits(_, _)
FractionDigits(rem, den) ==
    IF rem = 0 THEN ""
    ELSE DigitChar((10 * rem) \div den) \o FractionDigits((10 * rem) % den, den)

\* Digits without the zeros at their end.
RECURSIVE StripTrailingZeros(_)
StripTrailingZeros(digits) ==
    IF digits # "" /\ CharAt(digits, Len(digits)) = "0"
    THEN StripTrailingZeros(SubSeq(digits, 1, Len(digits) - 1))
    ELSE digits

\* d.ddde+x, or de+x for a single digit
Scientific(digits, exponentText) ==
    (IF Len(digits) = 1 THEN digits
     ELSE SubSeq(digits, 1, 1) \o "." \o SubSeq(digits, 2, Len(digits)))
    \o "e" \o exponentText

\* Number::toString of a number that is not negative, given the digits
\* before and after its point: the decimal notation for a value from 1e-6
\* up to 1e21, the exponent notation beyond.
UnsignedToString(int, frac) ==
    IF int # "0"
    THEN IF Len(int) <= 21
         THEN (IF frac = "" THEN int ELSE int \o "." \o frac)
         ELSE Scientific(StripTrailingZeros(int \o frac),
                         "+" \o IntegerDigits(Len(int) - 1))
    ELSE IF frac = "" THEN "0"
    ELSE IF RunEnd(frac, 1, {"0"}) <= 6 THEN "0." \o frac
    ELSE Scientific(SubSeq(frac, RunEnd(frac, 1, {"0"}), Len(frac)),
                    "-" \o IntegerDigits(RunEnd(frac, 1, {"0"})))

\* Number::toString(10) of a finite number.  The digits the engine prints
\* are the fewest that read back as the same double; for the double nearest
\* to a decimal of at most 15 significant digits they are the digits of
\* that decimal, and a number of the model has at most 11 (ten of twice and
\* one more for a half).
NumberToString(v) ==
    LET num == IF v.twice < 0 THEN -v.twice ELSE v.twice
        den == 2 * Pow10(IF "places" \in DOMAIN v THEN v.places ELSE 0)
    IN  (IF v.twice < 0 THEN "-" ELSE "")
        \o UnsignedToString(IntegerDigits(num \div den),
                            FractionDigits(num % den, den))

\* String(v), and Array.prototype.join: a nullish element is joined as the
\* empty string, every other one as its string; an array is the join of
\* its elements with commas.
RECURSIVE StringOf(_)
RECURSIVE Join(_, _)
StringOf(v) ==
    CASE TypeOf(v) = "string" -> v.s
      [] TypeOf(v) = "number" -> <<NumberToString(v)>>
      [] TypeOf(v) = "NaN" -> <<"NaN">>
      [] TypeOf(v) = "Infinity" -> <<"Infinity">>
      [] TypeOf(v) = "-Infinity" -> <<"-Infinity">>
      [] TypeOf(v) = "boolean" -> <<IF v.b THEN "true" ELSE "false">>
      [] TypeOf(v) = "null" -> <<"null">>
      [] TypeOf(v) = "undefined" -> <<"undefined">>
      [] TypeOf(v) = "array" -> Join(v.items, ",")
      [] OTHER -> <<"[object Object]">>

Join(items, separator) ==
    IF items = <<>> THEN <<>>
    ELSE (IF IsNullish(items[1]) THEN <<>> ELSE StringOf(items[1]))
         \o (IF Len(items) = 1 THEN <<>>
             ELSE <<separator>> \o Join(Tail(items), separator))

\* Number(v).  An array is converted through its string.
ToNumber(v) ==
    CASE v.t = "number" -> v
      [] v.t = "NaN" -> NaN
      [] v.t = "Infinity" -> Infinity
      [] v.t = "-Infinity" -> NegInfinity
      [] v.t = "null" -> Num(0)
      [] v.t = "undefined" -> NaN
      [] v.t = "boolean" -> IF v.b THEN Num(2) ELSE Num(0)
      [] v.t = "string" -> StringToNumber(v.s)
      [] v.t = "array" -> StringToNumber(StringOf(v))
      [] OTHER -> NaN

\* Number.isFinite(v) for a value Number() returned
IsFinite(v) == v.t = "number"

\* The value of a variable the invocation has not assigned yet.
Unset == [t |-> "unset"]

\* new Error(message)
Error(message) == [t |-> "error", message |-> message]

\* The TypeError of calling a method the value does not have.
NotAFunction(callee) == Error(<<callee, " ", "is not a function">>)

\* value?.method(): true when the call raises, that is for a value that is
\* not nullish and not of the type that has the method.
LacksMethod(value, type) == ~IsNullish(value) /\ TypeOf(value) # type

----------------------------------------------------------------------------
(* The messages of the agent stream.                                       *)

TextBlock(text) == [type |-> "text", text |-> text]
ToolUseBlock == [type |-> "tool_use", text |-> Undefined]

AssistantMsg(content) == [type |-> "assistant", message |-> [content |-> content]]

ResultMsg(subtype, is_error, result, structured_output, errors) ==
    [type |-> "result", subtype |-> subtype, is_error |-> is_error,
     result |-> result, structured_output |-> structured_output,
     errors |-> errors]

\* block.name for an element of a content array, undefined when the
\* element has no such property.
BlockProp(block, name) == IF name \in DOMAIN block THEN block[name] ELSE Undefined

\* block?.type === "text"
IsTextBlock(block) == "type" \in DOMAIN block /\ block.type = "text"

\* The text blocks of a content array, in order: the blocks of type "text"
\* whose text is a string.
RECURSIVE TextsOf(_)
TextsOf(blocks) ==
    IF blocks = <<>> THEN <<>>
    ELSE IF IsTextBlock(Head(blocks)) /\ BlockProp(Head(blocks), "text").t = "string"
         THEN <<BlockProp(Head(blocks), "text")>> \o TextsOf(Tail(blocks))
         ELSE TextsOf(Tail(blocks))

extractTextBlocks(message) ==
    IF message.content.t # "array" THEN <<>>
    ELSE Trim(Join(TextsOf(message.content.items), "\n"))

\* message.subtype === "success" && !message.is_error
IsSuccessResult(m) ==
    m.type = "result" /\ m.subtype = "success" /\ ~m.is_error

\* Variant of Reason that reports only the first entry of the errors list.
ReasonFirstErrorOnly(m) ==
    IF m.errors.t = "array" /\ m.errors.items # <<>> /\ m.errors.items[1].s # <<>>
    THEN m.errors.items[1].s
    ELSE <<"Agent run failed with subtype", " ", m.subtype>>

\* message.errors?.join("\n") || `Agent run failed with subtype ${subtype}`
\* for errors that are an array or nullish.
Reason(m) ==
    LET joined == IF m.errors.t = "array" THEN Join(m.errors.items, "\n")
                  ELSE <<>>
    IN  IF ~Empty(joined) THEN joined
        ELSE <<"Agent run failed with subtype", " ", m.subtype>>

\* What the failure branch raises: new Error(reason), or the TypeError of
\* errors?.join for errors that are neither nullish nor an array.
FailureError(m) ==
    IF LacksMethod(m.errors, "array") THEN NotAFunction("message.errors?.join")
    ELSE Error(Reason(m))

\* message.result?.trim() || "" for a result that is a string or nullish.
ResultText(m) == IF m.result.t = "string" THEN Trim(m.result.s) ELSE <<>>

\* message.structured_output ?? null
StructuredOf(m) ==
    IF m.structured_output.t \in {"null", "undefined"} THEN Null
    ELSE m.structured_output

\* Variant of ReturnedFallbackText that prefers the assistant text.
ReturnedFallbackTextAssistantFirst(final, assistant) ==
    IF ~Empty(assistant) THEN assistant ELSE final

\* finalOutput || assistantFallback
ReturnedFallbackText(final, assistant) ==
    IF ~Empty(final) THEN final ELSE assistant

----------------------------------------------------------------------------
(* The output normalizer.                                                  *)

\* value.name for a property of a comment candidate or of a payload: only
\* an object of the model carries such properties, every other non-nullish
\* value yields undefined.
Prop(value, name) == IF value.t = "object" THEN value[name] ELSE Undefined

\* Reading a property of null or undefined raises a TypeError; the engine
\* quotes the name of the property.
TypeErrorReading(value, name) ==
    Error(<<"Cannot read properties of", " ", value.t, " ",
            "(reading", " ", "'", name, "'", ")">>)

\* typeof v === "string" ? v.trim() : ""
TrimmedStringOrEmpty(v) == IF v.t = "string" THEN Trim(v.s) ELSE <<>>

\* The callback of comments.map: the coerced comment.
CoerceComment(comment) ==
    [path |-> TrimmedStringOrEmpty(Prop(comment, "path")),
     line |-> ToNumber(Prop(comment, "line")),
     body |-> TrimmedStringOrEmpty(Prop(comment, "body")),
     side |-> IF Prop(comment, "side").t = "string"
                 /\ Flat(Prop(comment, "side").s) = "LEFT"
              THEN "LEFT" ELSE "RIGHT",
     severity |-> TrimmedStringOrEmpty(Prop(comment, "severity"))]

\* Variant of KeepComment that does not test the sign of the line.
KeepCommentAnyFiniteLine(comment) ==
    /\ ~Empty(comment.path)
    /\ IsFinite(comment.line)
    /\ ~Empty(comment.body)

\* The callback of .filter:
\* comment.path && Number.isFinite(comment.line) && comment.line > 0 && comment.body
KeepComment(comment) ==
    /\ ~Empty(comment.path)
    /\ IsFinite(comment.line)
    /\ comment.line.twice > 0
    /\ ~Empty(comment.body)

\* structured?.comments and structured?.summary
OptionalProp(value, name) ==
    IF IsNullish(value) THEN Undefined ELSE Prop(value, name)

\* Variant of SummaryOf that never falls back to the fallback text.
SummaryOfNoFallback(payload, text) ==
    LET summary == OptionalProp(payload, "summary")
    IN  IF summary.t = "string" THEN Trim(summary.s) ELSE <<>>

\* typeof structured?.summary === "string" && structured.summary.trim().length > 0
\*   ? structured.summary.trim() : fallbackText?.trim() || ""
SummaryOf(payload, text) ==
    LET summary == OptionalProp(payload, "summary")
    IN  IF summary.t = "string" /\ Len(Flat(Trim(summary.s))) > 0
        THEN Trim(summary.s)
        ELSE Trim(text)

Review(summary, comments) ==
    [t |-> "review", summary |-> summary, comments |-> comments]

Returned(value) == [threw |-> FALSE, value |-> value]
Thrown(error) == [threw |-> TRUE, value |-> error]

\* Variant of normalizeReviewResult without the final test for an empty
\* result.
normalizeReviewResultKeepsEmpty(payload, text) ==
    IF ~Truthy(payload) /\ Empty(text) THEN Returned(Null)
    ELSE
    LET candidates == OptionalProp(payload, "comments")
        items == IF candidates.t = "array" THEN candidates.items ELSE <<>>
        nullish == {i \in 1..Len(items) : IsNullish(items[i])}
    IN  IF nullish # {}
        THEN Thrown(TypeErrorReading(
                 items[CHOOSE i \in nullish : \A j \in nullish : i <= j], "path"))
        ELSE
        LET coerced == [i \in 1..Len(items) |-> CoerceComment(items[i])]
            comments == SelectSeq(coerced, KeepComment)
            summary == SummaryOf(payload, text)
        IN  Returned(Review(summary, comments))

\* normalizeReviewResult(structured, fallbackText): what it returns, or the
\* error it raises.
normalizeReviewResult(payload, text) ==
    IF ~Truthy(payload) /\ Empty(text) THEN Returned(Null)
    ELSE
    LET candidates == OptionalProp(payload, "comments")
        items == IF candidates.t = "array" THEN candidates.items ELSE <<>>
        nullish == {i \in 1..Len(items) : IsNullish(items[i])}
    IN  IF nullish # {}
        THEN Thrown(TypeErrorReading(
                 items[CHOOSE i \in nullish : \A j \in nullish : i <= j], "path"))
        ELSE
        LET coerced == [i \in 1..Len(items) |-> CoerceComment(items[i])]
            comments == SelectSeq(coerced, KeepComment)
            summary == SummaryOf(payload, text)
        IN  IF Len(comments) = 0 /\ Empty(summary)
            THEN Returned(Null)
            ELSE Returned(Review(summary, comments))

----------------------------------------------------------------------------
(* Publication and the failure handler.  The Korean literals of the source *)
(* are rendered by ASCII pieces of the same role.                          *)

\* "리뷰 결과를 생성하지 못했습니다. (빈 응답)"
PlaceholderEmpty == <<"could not generate a review (empty response)">>
\* "리뷰 결과를 생성하지 못했습니다. (요약 없음)"
PlaceholderNoSummary == <<"could not generate a review (no summary)">>
\* "자동 코드 리뷰"
DefaultReviewBody == <<"automatic code review">>

\* octokit.issues.createComment({ ..., body })
CreateComment(body) == [api |-> "createComment", body |-> body, comments |-> <<>>]

\* octokit.pulls.createReview({ ..., event: "COMMENT", body, comments })
CreateReview(body, comments) ==
    [api |-> "createReview", body |-> body, comments |-> comments]

\* The callback of review.comments.map in postReviewComments.
DecorateComment(comment) ==
    [path |-> comment.path,
     line |-> comment.line,
     side |-> IF comment.side # "" THEN comment.side ELSE "RIGHT",
     body |-> IF ~Empty(comment.severity)
              THEN <<"(">> \o comment.severity \o <<")", " ">> \o comment.body
              ELSE comment.body]

\* Variant of postReviewComments that sends the summary as it is.
postReviewCommentsSummaryAsIs(rv) ==
    IF rv = Null \/ Len(rv.comments) = 0
    THEN Thrown(Error(<<"No review comments to post">>))
    ELSE Returned(CreateReview(
             rv.summary,
             [i \in 1..Len(rv.comments) |-> DecorateComment(rv.comments[i])]))

\* postReviewComments(review): the request it sends, or the error it raises
\* before sending anything.
postReviewComments(rv) ==
    IF rv = Null \/ Len(rv.comments) = 0
    THEN Thrown(Error(<<"No review comments to post">>))
    ELSE Returned(CreateReview(
             IF ~Empty(rv.summary) THEN rv.summary ELSE DefaultReviewBody,
             [i \in 1..Len(rv.comments) |-> DecorateComment(rv.comments[i])]))

\* Variant of MainPublication that tests for a summary before it tests
\* for comments.
MainPublicationSummaryFirst(rv) ==
    IF rv = Null THEN Returned(CreateComment(PlaceholderEmpty))
    ELSE IF ~Empty(rv.summary) THEN Returned(CreateComment(rv.summary))
    ELSE postReviewComments(rv)

\* main, lines 616-626: the one publication main attempts for a review.
MainPublication(rv) ==
    IF rv = Null THEN Returned(CreateComment(PlaceholderEmpty))
    ELSE IF Len(rv.comments) > 0 THEN postReviewComments(rv)
    ELSE Returned(CreateComment(
             IF ~Empty(rv.summary) THEN rv.summary ELSE PlaceholderNoSummary))

\* The letters String.prototype.toLowerCase changes in the texts of the
\* model, with their lower-case forms.
LowerChar ==
    ("A" :> "a") @@ ("B" :> "b") @@ ("C" :> "c") @@ ("D" :> "d") @@ ("E" :> "e")
    @@ ("F" :> "f") @@ ("G" :> "g") @@ ("H" :> "h") @@ ("I" :> "i")
    @@ ("J" :> "j") @@ ("K" :> "k") @@ ("L" :> "l") @@ ("M" :> "m")
    @@ ("N" :> "n") @@ ("O" :> "o") @@ ("P" :> "p") @@ ("Q" :> "q")
    @@ ("R" :> "r") @@ ("S" :> "s") @@ ("T" :> "t") @@ ("U" :> "u")
    @@ ("V" :> "v") @@ ("W" :> "w") @@ ("X" :> "x") @@ ("Y" :> "y")
    @@ ("Z" :> "z")

\* String.prototype.toLowerCase of one piece, character by character.
RECURSIVE LowerPiece(_)
LowerPiece(p) ==
    IF p = "" THEN ""
    ELSE (IF Head(p) \in DOMAIN LowerChar THEN LowerChar[Head(p)] ELSE Head(p))
         \o LowerPiece(Tail(p))

\* String.prototype.toLowerCase
ToLowerCase(s) == [i \in 1..Len(s) |-> LowerPiece(s[i])]

\* The 0-based positions of a text at which a needle occurs.
Occurrences(text, needle) ==
    {i \in 0..(Len(text) - Len(needle)) :
        SubSeq(text, i + 1, i + Len(needle)) = needle}

\* String.prototype.includes
Includes(s, needle) == Occurrences(Flat(s), needle) # {}

\* err?.error?.error?.message || err?.message || ""
ErrorMessageOf(e) == e.message

isAnthropicCreditError(e) ==
    Includes(ToLowerCase(ErrorMessageOf(e)), "credit balance is too low")

\* Variant of isAnthropicModelNotFound that is content with either text.
isAnthropicModelNotFoundEither(e) ==
    \/ Includes(ToLowerCase(ErrorMessageOf(e)), "model:")
    \/ Includes(ToLowerCase(ErrorMessageOf(e)), "not_found")

isAnthropicModelNotFound(e) ==
    /\ Includes(ToLowerCase(ErrorMessageOf(e)), "model:")
    /\ Includes(ToLowerCase(ErrorMessageOf(e)), "not_found")

\* The branch main().catch takes.
Classify(e) ==
    IF isAnthropicCreditError(e) THEN "CreditExhausted"
    ELSE IF isAnthropicModelNotFound(e) THEN "ModelNotFound"
    ELSE "Generic"

\* err?.error?.error?.message || err?.message || "Unknown error"
BaseMsg(e) == IF ~Empty(e.message) THEN e.message ELSE <<"Unknown error">>

\* The body of the comment main().catch posts.  The errors of this model
\* (new Error, TypeError, the platform's HTTP error) carry no request id, so
\* the optional request_id line is never part of the body.
ErrorCommentBody(e) ==
    LET messageLine == <<"- message:", " ">> \o BaseMsg(e) \o <<"\n">>
    IN  CASE Classify(e) = "CreditExhausted" ->
               <<"[warn] could not call the API: credit exhausted", "\n", "\n">>
               \o messageLine \o <<"\n", "top up the credit">>
          [] Classify(e) = "ModelNotFound" ->
               <<"[warn] could not call the API: model not found", "\n", "\n",
                 "- requested model", "\n">>
               \o messageLine \o <<"\n", "change the model input">>
          [] OTHER ->
               <<"[warn] the review bot failed", "\n", "\n">>
               \o messageLine \o <<"\n", "(see the Actions log)">>

----------------------------------------------------------------------------
(* The pull request's thread and the optional user request.                *)

\* An entry of the thread: who wrote it (0 a human, otherwise the number of
\* the invocation) and the request that created it.
Entry(by, request) ==
    [by |-> by, api |-> request.api, body |-> request.body,
     comments |-> request.comments]

\* Variant of AppendEntry that overwrites the newest entry of the thread.
ReplaceLastEntry(entries, entry) ==
    IF entries = <<>> THEN <<entry>>
    ELSE [entries EXCEPT ![Len(entries)] = entry]

\* The effect of a createComment or createReview call that succeeds: the
\* thread gains one entry at its end.
AppendEntry(entries, entry) == Append(entries, entry)

\* per_page: 100
PerPage == 100

\* octokit.issues.listComments({ ..., per_page: 100 }): the first page of
\* the conversation comments, oldest first.
ListComments(entries) ==
    LET conversation == SelectSeq(entries, LAMBDA entry : entry.api = "createComment")
    IN  SubSeq(conversation, 1,
               IF Len(conversation) < PerPage THEN Len(conversation) ELSE PerPage)

\* Variant of IndexOf that gives the last position (lastIndexOf).
LastIndexOf(s, needle) ==
    LET found == Occurrences(Flat(s), needle)
    IN  IF found = {} THEN -1
        ELSE CHOOSE i \in found : \A j \in found : j <= i

\* String.prototype.indexOf: the first position, -1 when there is none.
IndexOf(s, needle) ==
    LET found == Occurrences(Flat(s), needle)
    IN  IF found = {} THEN -1
        ELSE CHOOSE i \in found : \A j \in found : i <= j

\* String.prototype.slice(n) for 0 <= n: the string without its first n
\* characters.
RECURSIVE Slice(_, _)
Slice(s, n) ==
    IF n = 0 \/ s = <<>> THEN s
    ELSE IF Len(Head(s)) <= n THEN Slice(Tail(s), n - Len(Head(s)))
    ELSE <<SubSeq(Head(s), n + 1, Len(Head(s)))>> \o Tail(s)

MentionToken == "@review-bot"

\* The loop of fetchLatestUserRequest from comments[i] down to comments[0]:
\* the instructions it returns, null when it runs out of comments.
RECURSIVE ScanComments(_, _)
ScanComments(comments, i) ==
    IF i < 1 THEN Null
    ELSE LET body == comments[i].body
             mentionIndex == IndexOf(ToLowerCase(body), MentionToken)
             instructions == Trim(Slice(body, mentionIndex + Len(MentionToken)))
         IN  IF Empty(body) \/ mentionIndex = -1 \/ Empty(instructions)
             THEN ScanComments(comments, i - 1)
             ELSE Str(instructions)

\* fetchLatestUserRequest once listComments has answered with comments.
fetchLatestUserRequest(comments) == ScanComments(comments, Len(comments))

\* "사용자 추가 지시사항: (추가 요청 없음)"
NoUserRequestBlock == <<"user instructions: (no additional request)">>

\* main, lines 599-601
UserRequestBlockOf(request) ==
    IF Truthy(request)
    THEN <<"user instructions:", "\n">> \o request.s
         \o <<"\n", "- reflect the requirements above faithfully">>
    ELSE NoUserRequestBlock

----------------------------------------------------------------------------
(* The inputs: what the agent may stream.                                  *)

\* {path: "a.ts", line: 5, body: "fix X"}
GoodComment ==
    CommentObj(Str(<<"a.ts">>), Num(10), Str(<<"fix X">>), Undefined, Undefined)

LeftComment ==
    CommentObj(Str(<<"\f ", "b.ts">>), Str(<<"7">>), Str(<<"rename", "\n">>),
               Str(<<"LE", "FT">>), Str(<<"High">>))

\* The comment candidates of the structured payloads: the two above, the
\* first one with one field absent or of another shape, and values that
\* are no objects.
Candidates ==
    { GoodComment, LeftComment,
      [GoodComment EXCEPT !.path = Undefined],
      [GoodComment EXCEPT !.path = Str(<<" ">>)],
      [GoodComment EXCEPT !.line = Num(0)],
      [GoodComment EXCEPT !.line = Num(-2)],
      [GoodComment EXCEPT !.line = Num(3)],
      [GoodComment EXCEPT !.line = Undefined],
      [GoodComment EXCEPT !.line = Bool(TRUE)],
      [GoodComment EXCEPT !.line = Arr(<<Num(14)>>)],
      [GoodComment EXCEPT !.line = Arr(<<Arr(<<Num(14)>>)>>)],
      [GoodComment EXCEPT !.line = Str(<<"12">>)],
      [GoodComment EXCEPT !.line = Str(<<"Infinity">>)],
      [GoodComment EXCEPT !.body = Undefined],
      [GoodComment EXCEPT !.body = Str(<<" ">>)],
      [GoodComment EXCEPT !.side = Str(<<"left">>), !.severity = Str(<<" ">>)],
      Null,
      Num(10) }

RECURSIVE SeqsUpTo(_, _)
SeqsUpTo(S, n) ==
    IF n = 0 THEN {<<>>}
    ELSE LET shorter == SeqsUpTo(S, n - 1)
         IN  shorter \cup {Append(q, x) : q \in {r \in shorter : Len(r) = n - 1}, x \in S}

\* The structured payloads of the one-message streams.
Payloads ==
    {Null, Str(<<"text">>), PayloadObj(Str(<<"overall">>), Undefined)}
    \cup {PayloadObj(sm, Arr(cs)) :
             sm \in {Undefined, Str(<<>>), Str(<<" ">>), Str(<<" ", "overall">>)},
             cs \in SeqsUpTo(Candidates, MaxComments)}

SuccessMsg(result, payload) == ResultMsg("success", FALSE, result, payload, Undefined)
FailureMsg(subtype, is_error, errors) ==
    ResultMsg(subtype, is_error, Undefined, Undefined, errors)

\* The messages of the longer streams.
Messages ==
    { AssistantMsg(Arr(<<TextBlock(Str(<<"draft">>))>>)),
      AssistantMsg(Arr(<<TextBlock(Str(<<" ", "LGTM", "\n">>)), ToolUseBlock,
                         TextBlock(Str(<<"nit">>))>>)),
      AssistantMsg(Arr(<<TextBlock(Str(<<" ">>)), ToolUseBlock>>)),
      [type |-> "system"],
      SuccessMsg(Str(<<" ", "final", " ">>), Undefined),
      SuccessMsg(Undefined, PayloadObj(Str(<<>>), Arr(<<GoodComment>>))),
      SuccessMsg(Str(<<>>), PayloadObj(Undefined, Arr(<<>>))),
      SuccessMsg(Str(<<" ">>), PayloadObj(Str(<<"overall">>), Arr(<<LeftComment, Num(10)>>))),
      FailureMsg("error_max_turns", TRUE, Undefined),
      FailureMsg("error_during_execution", FALSE, Arr(<<Str(<<"boom">>), Str(<<"bang">>)>>)),
      FailureMsg("success", TRUE, Arr(<<>>)),
      FailureMsg("error_max_turns", TRUE, Arr(<<Str(<<>>)>>)) }

\* The error texts of the one-message failure streams.
ErrorTexts ==
    { <<"Your", " ", "credit balance is too low", " ", "to access the Claude API.">>,
      <<"Your", " ", "Credit Balance Is Too Low">>,
      <<"not_found", "_error", " ", "model:", " ", "claude-x">>,
      <<"NOT_FOUND", " ", "MODEL:", " ", "claude-x">>,
      <<"Credit balance is too low">>,
      <<"Model: x Not_Found">>,
      <<"model:", " ", "claude-x">>,
      <<"resource", " ", "not_found">>,
      <<"credit balance is too low", " ", "model:", " ", "not_found">>,
      <<"rate limited">> }

Streams ==
    SeqsUpTo(Messages, MaxStream)
    \cup {<<SuccessMsg(r, p)>> :
             r \in {Undefined, Str(<<>>), Str(<<" ", "final", " ">>)}, p \in Payloads}
    \cup {<<FailureMsg("error_during_execution", TRUE, Arr(<<Str(e)>>))>> : e \in ErrorTexts}

\* A conversation comment a human wrote.
HumanComment(body) == Entry(0, CreateComment(body))

\* The bodies of the human comments already on the thread.
HumanBodies ==
    { <<"looks good">>,
      <<"@review-bot", " ", "focus on tests">>,
      <<"@Review-Bot", " ", "check naming", " ">>,
      <<"hey", " ", "@review-bot", " ", "first", " ", "@review-bot", " ", "second">>,
      <<"thanks", " ", "@review-bot", " ">>,
      <<"@REVIEW-BOT", " ", "fix typos">>,
      <<>> }

\* A thread of more comments than one page holds: the last comment of the
\* first page and the newest comment both instruct the bot.
LongThread ==
    [i \in 1..(PerPage + 1) |->
        IF i = PerPage + 1
        THEN HumanComment(<<"@review-bot", " ", "focus on tests">>)
        ELSE IF i = PerPage
             THEN HumanComment(<<"@Review-Bot", " ", "check naming", " ">>)
             ELSE HumanComment(<<"looks good">>)]

Threads ==
    {[i \in 1..Len(q) |-> HumanComment(q[i])] : q \in SeqsUpTo(HumanBodies, MaxThread)}
    \cup {LongThread}

\* The inputs of an invocation: the thread it finds and the stream the
\* agent yields; the invocations that vary the thread take one stream.
Inputs ==
    {<<<<>>, s>> : s \in Streams}
    \cup {<<t, <<SuccessMsg(Str(<<"final">>), Undefined)>>>> : t \in Threads}

\* The messages an HTTP failure of the platform carries.
PlatformErrors == {<<"Validation Failed">>}

----------------------------------------------------------------------------
(* The invocation.                                                         *)

\* The variables of the other scripts and of the other processes, at rest.
OtherVarsIdle ==
    /\ diff = <<>>
    /\ maxDiffChars = 0
    /\ clippedDiff = <<>>
    /\ response = Unset
    /\ toolRequests = <<>>
    /\ decisions = <<>>
    /\ invs = <<>>

\* The locals of runClaudeReview and main before they are assigned.
LocalsUnset ==
    /\ pos = 0
    /\ finalOutput = <<>>
    /\ assistantFallback = <<>>
    /\ structuredOutput = Null
    /\ structured = Unset
    /\ fallbackText = <<>>
    /\ review = Unset
    /\ err = Unset
    /\ calls = <<>>
    /\ fetches = <<>>
    /\ userRequest = Unset
    /\ userRequestBlock = <<>>
    /\ models = Unset
    /\ textOfMain = Unset
    /\ exitStatus = "running"

Init ==
    /\ \E input \in Inputs : thread = input[1] /\ stream = input[2]
    /\ script = "structured"
    /\ LocalsUnset
    /\ OtherVarsIdle
    /\ pc = "fetchLatestUserRequest"

\* Variant of FetchLatestUserRequest that lets a failure of the listing
\* reach the handler.
FetchLatestUserRequestRaises ==
    /\ pc = "fetchLatestUserRequest"
    /\ \/ /\ fetches' = Append(fetches, [api |-> "listComments", ok |-> TRUE])
          /\ userRequest' = fetchLatestUserRequest(ListComments(thread))
          /\ userRequestBlock' = UserRequestBlockOf(userRequest')
          /\ pc' = "runClaudeReview"
          /\ UNCHANGED err
       \/ \E e \in PlatformErrors :
          /\ fetches' = Append(fetches, [api |-> "listComments", ok |-> FALSE])
          /\ err' = Error(e)
          /\ pc' = "catch"
          /\ UNCHANGED <<userRequest, userRequestBlock>>
    /\ UNCHANGED <<stream, pos, finalOutput, assistantFallback, structuredOutput,
                   structured, fallbackText, review, calls, exitStatus,
                   thread, otherVars>>

\* const userRequest = await fetchLatestUserRequest(), and the block built
\* from it: the listing answers or fails, and a failure is caught inside
\* fetchLatestUserRequest, which then returns null.
FetchLatestUserRequest ==
    /\ pc = "fetchLatestUserRequest"
    /\ \E ok \in BOOLEAN :
        /\ fetches' = Append(fetches, [api |-> "listComments", ok |-> ok])
        /\ userRequest' = IF ok THEN fetchLatestUserRequest(ListComments(thread))
                                ELSE Null
    /\ userRequestBlock' = UserRequestBlockOf(userRequest')
    /\ pc' = "runClaudeReview"
    /\ UNCHANGED <<stream, pos, finalOutput, assistantFallback, structuredOutput,
                   structured, fallbackText, review, err, calls, exitStatus,
                   thread, otherVars>>


\* if (message.type === "assistant") { ... if (text) assistantFallback = text }
OnAssistant(m) ==
    /\ m.type = "assistant"
    /\ assistantFallback' =
         IF ~Empty(extractTextBlocks(m.message))
         THEN extractTextBlocks(m.message)
         ELSE assistantFallback
    /\ UNCHANGED <<finalOutput, structuredOutput, err, pc>>

\* Variant of OnResultSuccess without the break: the loop goes on.
OnResultSuccessNoBreak(m) ==
    /\ IsSuccessResult(m)
    /\ structuredOutput' = IF script = "structured" THEN StructuredOf(m)
                                                    ELSE structuredOutput
    /\ IF LacksMethod(m.result, "string")
       THEN /\ err' = NotAFunction("message.result?.trim")
            /\ pc' = "catch"
            /\ UNCHANGED finalOutput
       ELSE /\ finalOutput' = ResultText(m)
            /\ UNCHANGED <<err, pc>>
    /\ UNCHANGED assistantFallback

\* the success result: capture and break; a result that is neither a
\* string nor nullish has no trim to call, which raises a TypeError after
\* the structured output was taken.
OnResultSuccess(m) ==
    /\ IsSuccessResult(m)
    /\ structuredOutput' = IF script = "structured" THEN StructuredOf(m)
                                                    ELSE structuredOutput
    /\ IF LacksMethod(m.result, "string")
       THEN /\ err' = NotAFunction("message.result?.trim")
            /\ pc' = "catch"
            /\ UNCHANGED finalOutput
       ELSE /\ finalOutput' = ResultText(m)
            /\ pc' = "return"
            /\ UNCHANGED err
    /\ UNCHANGED assistantFallback

\* Variant of OnResultFailure that ends the loop without raising when an
\* assistant text was captured.
OnResultFailureUsesFallback(m) ==
    /\ m.type = "result"
    /\ ~IsSuccessResult(m)
    /\ IF ~Empty(assistantFallback)
       THEN pc' = "return" /\ UNCHANGED err
       ELSE err' = FailureError(m) /\ pc' = "catch"
    /\ UNCHANGED <<finalOutput, assistantFallback, structuredOutput>>

\* any other result: throw new Error(reason)
OnResultFailure(m) ==
    /\ m.type = "result"
    /\ ~IsSuccessResult(m)
    /\ err' = FailureError(m)
    /\ pc' = "catch"
    /\ UNCHANGED <<finalOutput, assistantFallback, structuredOutput>>

\* a message of another type is only logged
OnOther(m) ==
    /\ m.type \notin {"assistant", "result"}
    /\ UNCHANGED <<finalOutput, assistantFallback, structuredOutput, err, pc>>

\* One iteration of the for-await loop of runClaudeReview.
ForAwaitNext ==
    /\ pc = "runClaudeReview"
    /\ pos < Len(stream)
    /\ pos' = pos + 1
    /\ \/ OnAssistant(stream[pos + 1])
       \/ OnResultSuccess(stream[pos + 1])
       \/ OnResultFailure(stream[pos + 1])
       \/ OnOther(stream[pos + 1])
    /\ UNCHANGED <<stream, structured, fallbackText, review, calls, exitStatus>>
    /\ UNCHANGED <<thread, requestVars, otherVars>>

\* The stream ends without a result message: the loop ends.
StreamEnd ==
    /\ pc = "runClaudeReview"
    /\ pos = Len(stream)
    /\ pc' = "return"
    /\ UNCHANGED <<stream, pos, finalOutput, assistantFallback, structuredOutput,
                   structured, fallbackText, review, err, calls, exitStatus>>
    /\ UNCHANGED <<thread, requestVars, otherVars>>

\* return { structured: structuredOutput, fallbackText: finalOutput || assistantFallback }
Return ==
    /\ pc = "return"
    /\ script = "structured"
    /\ structured' = structuredOutput
    /\ fallbackText' = ReturnedFallbackText(finalOutput, assistantFallback)
    /\ pc' = "normalize"
    /\ UNCHANGED <<stream, pos, finalOutput, assistantFallback, structuredOutput,
                   review, err, calls, exitStatus>>
    /\ UNCHANGED <<thread, requestVars, otherVars>>

\* const review = normalizeReviewResult(structured, fallbackText)
Normalize ==
    /\ pc = "normalize"
    /\ LET r == normalizeReviewResult(structured, fallbackText)
       IN  IF r.threw
           THEN err' = r.value /\ pc' = "catch" /\ UNCHANGED review
           ELSE review' = r.value /\ pc' = "publish" /\ UNCHANGED err
    /\ UNCHANGED <<stream, pos, finalOutput, assistantFallback, structuredOutput,
                   structured, fallbackText, calls, exitStatus>>
    /\ UNCHANGED <<thread, requestVars, otherVars>>

\* Variant of Publish that answers a failed createReview call with a plain
\* comment carrying the summary.
PublishWithFallback ==
    /\ pc = "publish"
    /\ LET p == MainPublication(review)
       IN  IF p.threw
           THEN err' = p.value /\ pc' = "catch" /\ UNCHANGED <<calls, thread>>
           ELSE \/ /\ calls' = Append(calls, [by |-> "main", ok |-> TRUE, request |-> p.value])
                   /\ thread' = AppendEntry(thread, Entry(1, p.value))
                   /\ pc' = "resolved"
                   /\ UNCHANGED err
                \/ /\ p.value.api = "createReview"
                   /\ calls' = calls \o
                        <<[by |-> "main", ok |-> FALSE, request |-> p.value],
                          [by |-> "main", ok |-> TRUE, request |-> CreateComment(p.value.body)]>>
                   /\ thread' = AppendEntry(thread, Entry(1, CreateComment(p.value.body)))
                   /\ pc' = "resolved"
                   /\ UNCHANGED err
                \/ \E e \in PlatformErrors :
                   /\ p.value.api = "createComment"
                   /\ calls' = Append(calls, [by |-> "main", ok |-> FALSE, request |-> p.value])
                   /\ err' = Error(e)
                   /\ pc' = "catch"
                   /\ UNCHANGED thread
    /\ UNCHANGED <<stream, pos, finalOutput, assistantFallback, structuredOutput,
                   structured, fallbackText, review, exitStatus>>
    /\ UNCHANGED <<requestVars, otherVars>>

\* main, lines 616-626: the publication of the review; the platform call
\* succeeds or fails as a whole.
Publish ==
    /\ pc = "publish"
    /\ LET p == MainPublication(review)
       IN  IF p.threw
           THEN err' = p.value /\ pc' = "catch" /\ UNCHANGED <<calls, thread>>
           ELSE \/ /\ calls' = Append(calls, [by |-> "main", ok |-> TRUE, request |-> p.value])
                   /\ thread' = AppendEntry(thread, Entry(1, p.value))
                   /\ pc' = "resolved"
                   /\ UNCHANGED err
                \/ \E e \in PlatformErrors :
                   /\ calls' = Append(calls, [by |-> "main", ok |-> FALSE, request |-> p.value])
                   /\ err' = Error(e)
                   /\ pc' = "catch"
                   /\ UNCHANGED thread
    /\ UNCHANGED <<stream, pos, finalOutput, assistantFallback, structuredOutput,
                   structured, fallbackText, review, exitStatus>>
    /\ UNCHANGED <<requestVars, otherVars>>

\* Variant of ExitNormally that ends the process with status 1.
ExitNormallyStatusOne ==
    /\ pc = "resolved"
    /\ exitStatus' = 1
    /\ pc' = "exited"
    /\ UNCHANGED <<stream, pos, finalOutput, assistantFallback, structuredOutput,
                   structured, fallbackText, review, err, calls>>
    /\ UNCHANGED <<thread, requestVars, otherVars>>

\* main() resolved: nothing is left to run and the process ends normally.
ExitNormally ==
    /\ pc = "resolved"
    /\ exitStatus' = 0
    /\ pc' = "exited"
    /\ UNCHANGED <<stream, pos, finalOutput, assistantFallback, structuredOutput,
                   structured, fallbackText, review, err, calls>>
    /\ UNCHANGED <<thread, requestVars, otherVars>>

\* Variant of Catch that exits with status 0 whether or not the comment
\* was posted.
CatchAlwaysExitZero ==
    /\ pc = "catch"
    /\ script \in {"structured", "agent-text"}
    /\ \E ok \in BOOLEAN :
        /\ calls' = Append(calls, [by |-> "catch", ok |-> ok,
                                   request |-> CreateComment(ErrorCommentBody(err))])
        /\ thread' = IF ok
                     THEN AppendEntry(thread, Entry(1, CreateComment(ErrorCommentBody(err))))
                     ELSE thread
    /\ exitStatus' = 0
    /\ pc' = "exited"
    /\ UNCHANGED <<stream, pos, finalOutput, assistantFallback, structuredOutput,
                   structured, fallbackText, review, err>>
    /\ UNCHANGED <<requestVars, otherVars>>

\* main().catch: one error comment, then process.exit(0); when the comment
\* cannot be posted the handler's own promise rejects unhandled and the
\* process ends with status 1.
Catch ==
    /\ pc = "catch"
    /\ script \in {"structured", "agent-text"}
    /\ \E ok \in BOOLEAN :
        /\ calls' = Append(calls, [by |-> "catch", ok |-> ok,
                                   request |-> CreateComment(ErrorCommentBody(err))])
        /\ thread' = IF ok
                     THEN AppendEntry(thread, Entry(1, CreateComment(ErrorCommentBody(err))))
                     ELSE thread
        /\ exitStatus' = IF ok THEN 0 ELSE 1
    /\ pc' = "exited"
    /\ UNCHANGED <<stream, pos, finalOutput, assistantFallback, structuredOutput,
                   structured, fallbackText, review, err>>
    /\ UNCHANGED <<requestVars, otherVars>>

Next ==
    \/ FetchLatestUserRequest
    \/ ForAwaitNext
    \/ StreamEnd
    \/ Return
    \/ Normalize
    \/ Publish
    \/ ExitNormally
    \/ Catch

Spec == Init /\ [][Next]_vars

----------------------------------------------------------------------------
(* The single-call scripts: one messages.create call on the clipped diff.  *)
(* script = "single-call" is the script with the classifying handler,      *)
(* script = "basic" the one whose handler only exits.                      *)

\* "\n\n...(truncated)..."
TruncationMarker == <<"\n", "\n", "...(truncated)...">>

\* Variant of clip that keeps one character more than the bound.
clipOneMore(text, maxChars) ==
    IF text = <<>> THEN <<>>
    ELSE IF Len(text) <= maxChars THEN text
    ELSE SubSeq(text, 1, maxChars + 1) \o TruncationMarker

\* clip of the single-call script, for a text held character by character
\* and a bound that is a count of characters (maxChars >= 0).
clip(text, maxChars) ==
    IF text = <<>> THEN <<>>
    ELSE IF Len(text) <= maxChars THEN text
    ELSE SubSeq(text, 1, maxChars) \o TruncationMarker

\* clip of the basic script: the same without the test of an empty text.
clip_part_001(text, maxChars) ==
    IF Len(text) <= maxChars THEN text
    ELSE SubSeq(text, 1, maxChars) \o TruncationMarker

\* clip(diff, 30000)
BasicMaxDiffChars == 30000

\* .filter((c) => c.type === "text").map((c) => c.text).join("\n").trim()
\* over the elements of a content array: the text, or the TypeError of
\* reading the type of the first element that is nullish.  The filter tests
\* the type only, so the text of a block may be any value.
TextOfContent(items) ==
    LET nullish == {i \in 1..Len(items) : IsNullish(items[i])}
        blocks == SelectSeq(items, IsTextBlock)
    IN  IF nullish # {}
        THEN Thrown(TypeErrorReading(
                 items[CHOOSE i \in nullish : \A j \in nullish : i <= j], "type"))
        ELSE Returned(Trim(Join([i \in 1..Len(blocks) |-> BlockProp(blocks[i], "text")],
                                "\n")))

\* The text of the response in the single-call script:
\* (resp.content || []) makes a falsy content an empty text, and a truthy
\* one that is no array has no filter to call.
TextOfResponse(resp) ==
    IF ~Truthy(resp.content) THEN Returned(<<>>)
    ELSE IF resp.content.t # "array"
         THEN Thrown(NotAFunction("(resp.content || []).filter"))
         ELSE TextOfContent(resp.content.items)

\* The text of the response in the basic script, which reads resp.content
\* without a default.
TextOfResponse_part_001(resp) ==
    IF IsNullish(resp.content) THEN Thrown(TypeErrorReading(resp.content, "filter"))
    ELSE IF resp.content.t # "array" THEN Thrown(NotAFunction("resp.content.filter"))
    ELSE TextOfContent(resp.content.items)

\* if (String(baseMsg).includes("model:")), after the credit test
ClassifySingleCall(e) ==
    IF isAnthropicCreditError(e) THEN "CreditExhausted"
    ELSE IF Includes(BaseMsg(e), "model:") THEN "ModelNotFound"
    ELSE "Generic"

\* The body of the comment the handler of the single-call script posts;
\* ids is what tryListModelsForHint returned.
ErrorCommentBodySingleCall(e, ids) ==
    LET messageLine == <<"- message:", " ">> \o BaseMsg(e) \o <<"\n">>
        hint == IF ids = Null THEN <<>>
                ELSE <<"\n", "models this key can see:", "\n", "- ">>
                     \o ids.s \o <<"\n">>
    IN  CASE ClassifySingleCall(e) = "CreditExhausted" ->
               <<"[warn] could not call the API: credit exhausted", "\n", "\n">>
               \o messageLine \o <<"\n", "top up the credit">>
          [] ClassifySingleCall(e) = "ModelNotFound" ->
               <<"[warn] could not call the API: model not found", "\n", "\n",
                 "- requested model", "\n">>
               \o messageLine \o hint \o <<"\n", "change the model input to one of the list">>
          [] OTHER ->
               <<"[warn] the review bot failed", "\n", "\n">>
               \o messageLine \o <<"\n", "(see the Actions log)">>

\* The diffs of the pull request, character by character.
Diffs == SeqsUpTo({"a", "\n"}, MaxDiff)

\* The content blocks of a response.
Blocks ==
    {TextBlock(Str(<<"LGTM">>)), TextBlock(Str(<<" ">>)), TextBlock(Str(<<>>)),
     ToolUseBlock}

\* The responses of messages.create: up to two blocks, or no content.
Responses ==
    {[content |-> Arr(q)] : q \in SeqsUpTo(Blocks, 2)} \cup {[content |-> Undefined]}

InitSingleCall ==
    /\ script \in {"single-call", "basic"}
    /\ diff \in Diffs
    /\ maxDiffChars \in IF script = "basic" THEN {BasicMaxDiffChars} ELSE 0..MaxChars
    /\ thread = <<>>
    /\ stream = <<>>
    /\ LocalsUnset
    /\ clippedDiff = <<>>
    /\ response = Unset
    /\ toolRequests = <<>>
    /\ decisions = <<>>
    /\ invs = <<>>
    /\ pc = IF script = "basic" THEN "fetchPRDiff" ELSE "fetchPR"

\* octokit.pulls.get: the title and the description of the pull request.
\* The single-call script asks for them first; the basic script asks for
\* them second, inside fetchPRDiff, and clips the diff next.
FetchPR ==
    /\ pc = "fetchPR"
    /\ \/ /\ fetches' = Append(fetches, [api |-> "pulls.get", ok |-> TRUE])
          /\ IF script = "basic"
             THEN /\ clippedDiff' = clip_part_001(diff, BasicMaxDiffChars)
                  /\ pc' = "messages.create"
             ELSE /\ pc' = "fetchPRDiff"
                  /\ UNCHANGED clippedDiff
          /\ UNCHANGED err
       \/ \E e \in PlatformErrors :
          /\ fetches' = Append(fetches, [api |-> "pulls.get", ok |-> FALSE])
          /\ err' = Error(e)
          /\ pc' = "catch"
          /\ UNCHANGED clippedDiff
    /\ UNCHANGED <<stream, pos, finalOutput, assistantFallback, structuredOutput,
                   structured, fallbackText, review, calls, exitStatus, thread,
                   userRequest, userRequestBlock, script, diff, maxDiffChars,
                   response, toolRequests, decisions, invs, models, textOfMain>>

\* The request of the diff; in the single-call script it is followed by
\* const clippedDiff = clip(diff, maxDiffChars).
FetchPRDiff ==
    /\ pc = "fetchPRDiff"
    /\ \/ /\ fetches' = Append(fetches, [api |-> "pulls.diff", ok |-> TRUE])
          /\ IF script = "basic"
             THEN /\ pc' = "fetchPR"
                  /\ UNCHANGED clippedDiff
             ELSE /\ clippedDiff' = clip(diff, maxDiffChars)
                  /\ pc' = "messages.create"
          /\ UNCHANGED err
       \/ \E e \in PlatformErrors :
          /\ fetches' = Append(fetches, [api |-> "pulls.diff", ok |-> FALSE])
          /\ err' = Error(e)
          /\ pc' = "catch"
          /\ UNCHANGED clippedDiff
    /\ UNCHANGED <<stream, pos, finalOutput, assistantFallback, structuredOutput,
                   structured, fallbackText, review, calls, exitStatus, thread,
                   userRequest, userRequestBlock, script, diff, maxDiffChars,
                   response, toolRequests, decisions, invs, models, textOfMain>>

\* await anthropic.messages.create(...) and the text taken from the
\* response.  The basic script reads resp.content without a default and
\* throws on an empty text.
CreateMessage ==
    /\ pc = "messages.create"
    /\ \/ \E resp \in Responses :
        \E taken \in {IF script = "basic" THEN TextOfResponse_part_001(resp)
                                          ELSE TextOfResponse(resp)} :
          /\ fetches' = Append(fetches, [api |-> "messages.create", ok |-> TRUE])
          /\ response' = resp
          /\ IF taken.threw
             THEN /\ err' = taken.value
                  /\ pc' = "catch"
                  /\ UNCHANGED textOfMain
             ELSE /\ textOfMain' = Str(taken.value)
                  /\ IF script = "basic" /\ Empty(taken.value)
                     THEN /\ err' = Error(<<"Claude returned empty response">>)
                          /\ pc' = "catch"
                     ELSE pc' = "postComment" /\ UNCHANGED err
       \/ \E e \in ErrorTexts :
          /\ fetches' = Append(fetches, [api |-> "messages.create", ok |-> FALSE])
          /\ err' = Error(e)
          /\ pc' = "catch"
          /\ UNCHANGED <<response, textOfMain>>
    /\ UNCHANGED <<stream, pos, finalOutput, assistantFallback, structuredOutput,
                   structured, fallbackText, review, calls, exitStatus, thread,
                   userRequest, userRequestBlock, script, diff, maxDiffChars,
                   clippedDiff, toolRequests, decisions, invs, models>>

\* The request main posts: the placeholder for an empty text, else the text.
PostTextRequest(body) ==
    CreateComment(IF Empty(body) THEN PlaceholderEmpty ELSE body)

\* if (!text) { await postComment(placeholder); return; }
\* await postComment(text);
PostText ==
    /\ pc = "postComment"
    /\ LET request == PostTextRequest(textOfMain.s)
       IN  \/ /\ calls' = Append(calls, [by |-> "main", ok |-> TRUE, request |-> request])
              /\ thread' = AppendEntry(thread, Entry(1, request))
              /\ pc' = "resolved"
              /\ UNCHANGED err
           \/ \E e \in PlatformErrors :
              /\ calls' = Append(calls, [by |-> "main", ok |-> FALSE, request |-> request])
              /\ err' = Error(e)
              /\ pc' = "catch"
              /\ UNCHANGED thread
    /\ UNCHANGED <<stream, pos, finalOutput, assistantFallback, structuredOutput,
                   structured, fallbackText, review, exitStatus>>
    /\ UNCHANGED <<requestVars, otherVars>>

\* const models = await tryListModelsForHint(), the first await of the
\* handler's model branch: the ids of the list joined for the comment, null
\* when the list is empty or the request fails (the failure is swallowed).
tryListModelsForHint ==
    /\ pc = "catch"
    /\ script = "single-call"
    /\ ClassifySingleCall(err) = "ModelNotFound"
    /\ \E hint \in {Null, Str(<<"claude-x">>)}, listed \in BOOLEAN :
        /\ ~listed => hint = Null
        /\ fetches' = Append(fetches, [api |-> "models.list", ok |-> listed])
        /\ models' = hint
    /\ pc' = "catch.postComment"
    /\ UNCHANGED <<stream, pos, finalOutput, assistantFallback, structuredOutput,
                   structured, fallbackText, review, err, calls, exitStatus,
                   thread, userRequest, userRequestBlock, script, diff,
                   maxDiffChars, clippedDiff, response, toolRequests, decisions,
                   invs, textOfMain>>

\* main().catch of the single-call script: one error comment (in the model
\* branch after the model list was asked for), then process.exit(0); a
\* comment that cannot be posted leaves the handler's promise rejected and
\* the process ends with status 1.
CatchSingleCall ==
    /\ script = "single-call"
    /\ \/ pc = "catch" /\ ClassifySingleCall(err) # "ModelNotFound"
       \/ pc = "catch.postComment"
    /\ LET hint == IF pc = "catch.postComment" THEN models ELSE Null
           request == CreateComment(ErrorCommentBodySingleCall(err, hint))
       IN  \E ok \in BOOLEAN :
             /\ calls' = Append(calls, [by |-> "catch", ok |-> ok, request |-> request])
             /\ thread' = IF ok THEN AppendEntry(thread, Entry(1, request)) ELSE thread
             /\ exitStatus' = IF ok THEN 0 ELSE 1
    /\ pc' = "exited"
    /\ UNCHANGED <<stream, pos, finalOutput, assistantFallback, structuredOutput,
                   structured, fallbackText, review, err, requestVars, otherVars>>

\* main().catch((e) => { console.error(e); process.exit(1); })
CatchBasic ==
    /\ pc = "catch"
    /\ script = "basic"
    /\ exitStatus' = 1
    /\ pc' = "exited"
    /\ UNCHANGED <<stream, pos, finalOutput, assistantFallback, structuredOutput,
                   structured, fallbackText, review, err, calls, thread>>
    /\ UNCHANGED <<requestVars, otherVars>>

NextSingleCall ==
    \/ FetchPR
    \/ FetchPRDiff
    \/ CreateMessage
    \/ PostText
    \/ ExitNormally
    \/ tryListModelsForHint
    \/ CatchSingleCall
    \/ CatchBasic

SpecSingleCall == InitSingleCall /\ [][NextSingleCall]_vars

----------------------------------------------------------------------------
(* The text script (review-agent.mjs, lines 1-178, and                     *)
(* src/unnamed/part_000): the agent session without a structured output;   *)
(* main posts the text the session returned as one comment.                *)

\* The streams of the text script: the longer streams (some of their
\* success results carry a structured payload, which this script never
\* reads) and the one-message failure streams.
AgentTextStreams ==
    SeqsUpTo(Messages, MaxStream)
    \cup {<<FailureMsg("error_during_execution", TRUE, Arr(<<Str(e)>>))>> : e \in ErrorTexts}

\* The script starts with the session: it makes no request to the platform
\* before.
InitAgentText ==
    /\ stream \in AgentTextStreams
    /\ thread = <<>>
    /\ script = "agent-text"
    /\ LocalsUnset
    /\ OtherVarsIdle
    /\ pc = "runClaudeReview"

\* return finalOutput || assistantFallback, and main's
\* const text = await runClaudeReview(userPrompt)
ReturnText ==
    /\ pc = "return"
    /\ script = "agent-text"
    /\ textOfMain' = Str(ReturnedFallbackText(finalOutput, assistantFallback))
    /\ pc' = "postComment"
    /\ UNCHANGED <<stream, pos, finalOutput, assistantFallback, structuredOutput,
                   structured, fallbackText, review, err, calls, exitStatus,
                   thread, fetches, userRequest, userRequestBlock, script, diff,
                   maxDiffChars, clippedDiff, response, toolRequests, decisions,
                   invs, models>>

NextAgentText ==
    \/ ForAwaitNext
    \/ StreamEnd
    \/ ReturnText
    \/ PostText
    \/ ExitNormally
    \/ Catch

\* The two scripts that run an agent session.
InitAgents == Init \/ InitAgentText

NextAgents == Next \/ NextAgentText

SpecAgents == InitAgents /\ [][NextAgents]_vars

\* Every script of the reviewer.
InitAll == Init \/ InitSingleCall \/ InitAgentText

NextAll == Next \/ NextSingleCall \/ NextAgentText

SpecAll == InitAll /\ [][NextAll]_vars

\* The scripts of review-agent.mjs: the structured-output script, the text
\* script and the single-call script.
InitReviewAgent ==
    \/ Init
    \/ InitAgentText
    \/ InitSingleCall /\ script = "single-call"

NextReviewAgent ==
    \/ Next
    \/ NextAgentText
    \/ FetchPR
    \/ FetchPRDiff
    \/ CreateMessage
    \/ tryListModelsForHint
    \/ CatchSingleCall

SpecReviewAgent == InitReviewAgent /\ [][NextReviewAgent]_vars

----------------------------------------------------------------------------
(* Two invocations on the same pull request.  Each is a process of its own  *)
(* and shares nothing with the other but the thread; invs[i] holds the      *)
(* review invocation i has built (or the error its session raised) and the  *)
(* calls it has made.                                                       *)

Invocations == 1..2

\* The reviews an invocation may hold when it reaches the publication.
ConcurrentReviews ==
    { normalizeReviewResult(p, <<>>).value :
        p \in { Null,
                PayloadObj(Str(<<"overall">>), Arr(<<>>)),
                PayloadObj(Str(<<"overall">>), Arr(<<GoodComment>>)),
                PayloadObj(Undefined, Arr(<<GoodComment, LeftComment>>)) } }

\* An invocation at the point where it first writes: at the publication of
\* main, or in the handler when the session has raised.
InvocationStarts ==
    { [pc |-> "publish", review |-> rv, err |-> Unset, calls |-> <<>>,
       exitStatus |-> "running"] : rv \in ConcurrentReviews }
    \cup { [pc |-> "catch", review |-> Unset, err |-> Error(e), calls |-> <<>>,
            exitStatus |-> "running"] : e \in {<<"rate limited">>} }

InitConcurrent ==
    /\ thread \in {<<>>, <<HumanComment(<<"looks good">>)>>}
    /\ invs \in [Invocations -> InvocationStarts]
    /\ stream = <<>>
    /\ script = "structured"
    /\ LocalsUnset
    /\ diff = <<>>
    /\ maxDiffChars = 0
    /\ clippedDiff = <<>>
    /\ response = Unset
    /\ toolRequests = <<>>
    /\ decisions = <<>>
    /\ pc = "concurrent"

\* What a step of one invocation leaves alone.
ConcurrentUnchanged ==
    UNCHANGED <<stream, pos, finalOutput, assistantFallback, structuredOutput,
                structured, fallbackText, review, err, calls, exitStatus, pc,
                fetches, userRequest, userRequestBlock, script, diff,
                maxDiffChars, clippedDiff, response, toolRequests, decisions,
                models, textOfMain>>

\* The publication of main in invocation i (main, lines 616-626).
PublishBy(i) ==
    /\ invs[i].pc = "publish"
    /\ LET p == MainPublication(invs[i].review)
       IN  \/ /\ invs' = [invs EXCEPT
                            ![i].calls = Append(@, [by |-> "main", ok |-> TRUE,
                                                    request |-> p.value]),
                            ![i].pc = "resolved"]
              /\ thread' = AppendEntry(thread, Entry(i, p.value))
           \/ \E e \in PlatformErrors :
              /\ invs' = [invs EXCEPT
                            ![i].calls = Append(@, [by |-> "main", ok |-> FALSE,
                                                    request |-> p.value]),
                            ![i].err = Error(e),
                            ![i].pc = "catch"]
              /\ UNCHANGED thread
    /\ ConcurrentUnchanged

\* main() of invocation i resolved: its process ends normally.
ExitNormallyBy(i) ==
    /\ invs[i].pc = "resolved"
    /\ invs' = [invs EXCEPT ![i].exitStatus = 0, ![i].pc = "exited"]
    /\ UNCHANGED thread
    /\ ConcurrentUnchanged

\* main().catch of invocation i.
CatchBy(i) ==
    /\ invs[i].pc = "catch"
    /\ LET request == CreateComment(ErrorCommentBody(invs[i].err))
       IN  \E ok \in BOOLEAN :
             /\ invs' = [invs EXCEPT
                           ![i].calls = Append(@, [by |-> "catch", ok |-> ok,
                                                   request |-> request]),
                           ![i].exitStatus = IF ok THEN 0 ELSE 1,
                           ![i].pc = "exited"]
             /\ thread' = IF ok THEN AppendEntry(thread, Entry(i, request)) ELSE thread
    /\ ConcurrentUnchanged

NextConcurrent ==
    \E i \in Invocations :
        \/ PublishBy(i)
        \/ ExitNormallyBy(i)
        \/ CatchBy(i)

SpecConcurrent == InitConcurrent /\ [][NextConcurrent]_vars

----------------------------------------------------------------------------
(* The tool-approval callback of the agent session.                        *)

\* {}
EmptyObject == [t |-> "object"]

\* Variant of autoApproveToolRequest that refuses the Bash tool.
autoApproveToolRequestDenyBash(toolName, input) ==
    [behavior |-> IF toolName = "Bash" THEN "deny" ELSE "allow",
     updatedInput |-> IF input.t \in {"object", "array"} THEN input ELSE EmptyObject]

\* typeof input === "object" && input !== null ? input : {}; an array is an
\* object for typeof.
autoApproveToolRequest(toolName, input) ==
    [behavior |-> "allow",
     updatedInput |-> IF input.t \in {"object", "array"} THEN input ELSE EmptyObject]

ToolNames == {"Bash", "Write", "mcp__github__get_pull_request"}

\* The inputs the agent may propose.
ToolInputs ==
    { [t |-> "object", command |-> Str(<<"rm", " ", "-rf">>)],
      EmptyObject, Arr(<<Str(<<"ls">>)>>), Null, Undefined,
      Str(<<"ls">>), Num(2), Bool(TRUE) }

ToolRequests == {[toolName |-> n, input |-> v] : n \in ToolNames, v \in ToolInputs}

InitToolApproval ==
    /\ toolRequests \in SeqsUpTo(ToolRequests, MaxToolRequests)
    /\ decisions = <<>>
    /\ thread = <<>>
    /\ stream = <<>>
    /\ script = "structured"
    /\ LocalsUnset
    /\ diff = <<>>
    /\ maxDiffChars = 0
    /\ clippedDiff = <<>>
    /\ response = Unset
    /\ invs = <<>>
    /\ pc = "runClaudeReview"

\* canUseTool: the session asks about its next tool call.
CanUseTool ==
    /\ toolRequests # <<>>
    /\ decisions' = Append(decisions,
                      [toolName |-> Head(toolRequests).toolName,
                       input |-> Head(toolRequests).input,
                       decision |-> autoApproveToolRequest(Head(toolRequests).toolName,
                                                           Head(toolRequests).input)])
    /\ toolRequests' = Tail(toolRequests)
    /\ UNCHANGED <<stream, pos, finalOutput, assistantFallback, structuredOutput,
                   structured, fallbackText, review, err, calls, exitStatus, pc,
                   thread, fetches, userRequest, userRequestBlock, script, diff,
                   maxDiffChars, clippedDiff, response, invs, models, textOfMain>>

NextToolApproval == CanUseTool

SpecToolApproval == InitToolApproval /\ [][NextToolApproval]_vars

----------------------------------------------------------------------------
(* Properties of the agent session driver.                                 *)

\* Some message already taken from the stream is a success result.
SuccessTaken == \E i \in 1..pos : IsSuccessResult(stream[i])

\* C1: once the loop has taken a success result (subtype "success",
\* is_error false) it takes no further message: the position stays on that
\* message, and the captured structured payload (in the text script there
\* is none) and final text are the ones of that message and never change
\* afterwards.
C1_StopsAtFirstSuccess ==
    [][SuccessTaken =>
        /\ IsSuccessResult(stream[pos])
        /\ structuredOutput = IF script = "structured"
                              THEN StructuredOf(stream[pos]) ELSE Null
        /\ finalOutput = ResultText(stream[pos])
        /\ pos' = pos
        /\ structuredOutput' = structuredOutput
        /\ finalOutput' = finalOutput]_vars

\* C1 witness: the invocation has ended, the success result it stopped at is
\* followed by another success result with another payload, and the payload
\* handed to main is the one of the first.
C1_Witness ==
    /\ pc = "exited"
    /\ pos > 0 /\ pos < Len(stream)
    /\ IsSuccessResult(stream[pos])
    /\ \E j \in (pos + 1)..Len(stream) :
          /\ IsSuccessResult(stream[j])
          /\ StructuredOf(stream[j]) # StructuredOf(stream[pos])
    /\ structured = StructuredOf(stream[pos])

\* The last message taken is a result that is not a success: its subtype is
\* not "success" or its is_error is true.
FailureTaken ==
    /\ pos > 0
    /\ stream[pos].type = "result"
    /\ (stream[pos].subtype # "success" \/ stream[pos].is_error)

GenericReason(m) == <<"Agent run failed with subtype", " ", m.subtype>>

\* The reason as the claim states it: the joined list whenever the list is
\* present and has an entry.
ReasonByListPresence(m) ==
    IF m.errors.t = "array" /\ Len(m.errors.items) > 0
    THEN Join(m.errors.items, "\n")
    ELSE GenericReason(m)

\* The reason by the joined text: the joined list whenever that text is not
\* empty.
ReasonByJoinedText(m) ==
    IF m.errors.t = "array" /\ ~Empty(Join(m.errors.items, "\n"))
    THEN Join(m.errors.items, "\n")
    ELSE GenericReason(m)

\* The driver raised and returned nothing: main holds no session result and
\* no review, and control is in (or past) the failure handler.
RaisedWith(message) ==
    /\ pc \in {"catch", "exited"}
    /\ err = Error(message)
    /\ structured = Unset
    /\ review = Unset

\* C2 as stated: after a result message that is not a success the driver has
\* raised, returning nothing, and the error message is the errors list
\* joined by newlines when the list is present and non-empty, otherwise
\* "Agent run failed with subtype X".
C2_Original == FailureTaken => RaisedWith(ReasonByListPresence(stream[pos]))

\* C2 amended: the same, with the joined list used when the joined text is
\* non-empty (a list holding one empty string yields the generic message).
C2_RaisesWithReason == FailureTaken => RaisedWith(ReasonByJoinedText(stream[pos]))

\* C2 witness: a failure result whose errors list holds one empty string
\* ended the session with the generic message.
C2_Witness ==
    /\ FailureTaken
    /\ stream[pos].errors = Arr(<<Str(<<>>)>>)
    /\ pc = "exited"
    /\ err = Error(GenericReason(stream[pos]))

\* The text of the most recent assistant message with non-empty text among
\* msgs, the empty text when there is none.
RECURSIVE LastAssistantText(_)
LastAssistantText(msgs) ==
    IF msgs = <<>> THEN <<>>
    ELSE LET m == msgs[Len(msgs)]
         IN  IF m.type = "assistant" /\ extractTextBlocks(m.message) # <<>>
             THEN extractTextBlocks(m.message)
             ELSE LastAssistantText(SubSeq(msgs, 1, Len(msgs) - 1))

\* The fallback text the claim expects for the messages taken so far.
ExpectedFallbackText ==
    IF /\ pos > 0
       /\ IsSuccessResult(stream[pos])
       /\ stream[pos].result.t = "string"
       /\ Trim(stream[pos].result.s) # <<>>
    THEN Trim(stream[pos].result.s)
    ELSE LastAssistantText(SubSeq(stream, 1, pos))

\* C3: when the driver has returned, the fallback text is the trimmed text
\* of the success result when that is non-empty, otherwise the text of the
\* most recent assistant message with non-empty text, otherwise empty; also
\* when the stream ended without a result message; in the text script it
\* is the text main posts.
C3_FallbackText ==
    /\ structured # Unset => fallbackText = ExpectedFallbackText
    /\ textOfMain # Unset => textOfMain = Str(ExpectedFallbackText)

\* C3 witness: a stream without any result message ended; two assistant
\* messages had different non-empty texts and the last message had none;
\* the fallback text is the text of the later of the two.
C3_Witness ==
    /\ structured # Unset
    /\ pos = Len(stream)
    /\ \A i \in 1..Len(stream) : stream[i].type # "result"
    /\ Len(stream) = 3
    /\ stream[3].type = "assistant" /\ extractTextBlocks(stream[3].message) = <<>>
    /\ stream[1].type = "assistant" /\ stream[2].type = "assistant"
    /\ extractTextBlocks(stream[1].message) # <<>>
    /\ extractTextBlocks(stream[2].message) # <<>>
    /\ extractTextBlocks(stream[1].message) # extractTextBlocks(stream[2].message)
    /\ fallbackText = extractTextBlocks(stream[2].message)

----------------------------------------------------------------------------
(* Properties of the output normalizer.  They are stated on the states in  *)
(* which main has called normalizeReviewResult on the pair the driver      *)
(* returned: review holds what it returned and is still Unset when it      *)
(* raised.                                                                 *)

NormalizeCalled == structured # Unset /\ pc # "normalize"

\* The candidates of the payload's comments field when that is a sequence.
CandidatesOf(payload) ==
    IF OptionalProp(payload, "comments").t = "array"
    THEN OptionalProp(payload, "comments").items
    ELSE <<>>

\* A candidate that has a non-empty path, a finite positive line and a
\* non-empty body (texts taken without surrounding whitespace, the line by
\* its numeric value).
ValidCandidate(c) ==
    /\ c.t = "object"
    /\ c.path.t = "string" /\ Trim(c.path.s) # <<>>
    /\ ToNumber(c.line).t = "number" /\ ToNumber(c.line).twice > 0
    /\ c.body.t = "string" /\ Trim(c.body.s) # <<>>

\* The payload carries a usable summary: a string with some text in it.
UsableSummary(payload) ==
    /\ OptionalProp(payload, "summary").t = "string"
    /\ Trim(OptionalProp(payload, "summary").s) # <<>>

\* The payload is absent or empty: null, or without usable summary and
\* without any usable comment.
EmptyPayload(payload) ==
    \/ IsNullish(payload)
    \/ /\ ~UsableSummary(payload)
       /\ \A i \in 1..Len(CandidatesOf(payload)) : ~ValidCandidate(CandidatesOf(payload)[i])

\* C4 as stated: for an absent or empty payload and an empty fallback text,
\* normalizeReviewResult returns null.
C4_Original ==
    (NormalizeCalled /\ EmptyPayload(structured) /\ fallbackText = <<>>)
        => review = Null

\* The valid candidates of a sequence, in order.
ValidCandidatesOf(items) == SelectSeq(items, ValidCandidate)

\* C5 as stated: when the payload's comments field is a sequence of N
\* candidates of which K are invalid, normalizeReviewResult builds its
\* result from exactly the N-K valid candidates, in their order (the result
\* is null only when none is valid).
C5_Original ==
    (NormalizeCalled /\ OptionalProp(structured, "comments").t = "array")
        => /\ review # Unset
           /\ review = Null => ValidCandidatesOf(CandidatesOf(structured)) = <<>>
           /\ review # Null =>
                LET valid == ValidCandidatesOf(CandidatesOf(structured))
                IN  /\ Len(review.comments) = Len(valid)
                    /\ \A i \in 1..Len(valid) :
                          review.comments[i] = CoerceComment(valid[i])

\* C6 as stated: whatever the shape of the elements of the payload's
\* comments field, normalizeReviewResult raises no error: the invocation
\* goes on to publication with a result (a Review or null).
C6_Original ==
    (NormalizeCalled /\ Len(CandidatesOf(structured)) > 0)
        => /\ review # Unset
           /\ err = Unset \/ Len(calls) > 0

\* C7 as stated: the summary of a returned Review is the payload's summary
\* when that is a non-empty string, otherwise the trimmed fallback text when
\* non-empty, otherwise empty.
C7_Original ==
    (NormalizeCalled /\ review # Unset /\ review # Null)
        => LET summary == OptionalProp(structured, "summary")
           IN  /\ (summary.t = "string" /\ summary.s # <<>>)
                     => review.summary = summary.s
               /\ ~(summary.t = "string" /\ summary.s # <<>>)
                     => review.summary = Trim(fallbackText)

\* C7 amended: the summary of a returned Review is the payload's summary
\* trimmed when that is a string with non-empty trimmed text, otherwise the
\* trimmed fallback text when non-empty, otherwise empty.
C7_SummaryTrimmed ==
    (NormalizeCalled /\ review # Unset /\ review # Null)
        => /\ UsableSummary(structured)
                => review.summary = Trim(OptionalProp(structured, "summary").s)
           /\ (~UsableSummary(structured) /\ Trim(fallbackText) # <<>>)
                => review.summary = Trim(fallbackText)
           /\ (~UsableSummary(structured) /\ Trim(fallbackText) = <<>>)
                => review.summary = <<>>

\* C7 witness: a Review was returned for a payload whose summary is blank
\* and a non-empty fallback text, and its summary is that fallback text.
C7_Witness ==
    /\ NormalizeCalled /\ review # Unset /\ review # Null
    /\ OptionalProp(structured, "summary") = Str(<<" ">>)
    /\ fallbackText # <<>>
    /\ review.summary = fallbackText

\* The positions, in order, of the candidates the filter keeps.
RECURSIVE KeptPositions(_, _)
KeptPositions(items, from) ==
    IF from > Len(items) THEN <<>>
    ELSE IF KeepComment(CoerceComment(items[from]))
         THEN <<from>> \o KeptPositions(items, from + 1)
         ELSE KeptPositions(items, from + 1)

\* A comment that satisfies the ReviewComment invariant.
WellFormedComment(c) ==
    /\ c.path # <<>>
    /\ c.line.t = "number" /\ c.line.twice > 0
    /\ c.body # <<>>
    /\ c.side \in {"RIGHT", "LEFT"}

\* A Review that satisfies the Review invariant.
WellFormedReview(rv) ==
    /\ rv.summary # <<>> \/ Len(rv.comments) > 0
    /\ \A i \in 1..Len(rv.comments) : WellFormedComment(rv.comments[i])

\* C8: every non-null Review normalizeReviewResult returns has a non-empty
\* summary or a comment, each comment with non-empty path, finite line > 0,
\* non-empty body and side RIGHT or LEFT, LEFT exactly when the candidate's
\* side is exactly "LEFT"; and every review request main sends carries only
\* such comments.
C8_ReviewInvariant ==
    /\ (review # Unset /\ review # Null) =>
          /\ WellFormedReview(review)
          /\ LET kept == KeptPositions(CandidatesOf(structured), 1)
             IN  /\ Len(kept) = Len(review.comments)
                 /\ \A i \in 1..Len(kept) :
                       review.comments[i].side = "LEFT"
                          <=> LET side == Prop(CandidatesOf(structured)[kept[i]], "side")
                              IN  side.t = "string" /\ Flat(side.s) = "LEFT"
    /\ \A k \in 1..Len(calls) :
          calls[k].request.api = "createReview" =>
             /\ Len(calls[k].request.comments) > 0
             /\ \A i \in 1..Len(calls[k].request.comments) :
                   WellFormedComment(calls[k].request.comments[i])

\* C8 witness: a Review with two comments, one on the LEFT side and one on
\* the RIGHT, was published as a review.
C8_Witness ==
    /\ pc = "exited"
    /\ review # Unset /\ review # Null
    /\ Len(review.comments) = 2
    /\ review.comments[1].side = "LEFT"
    /\ review.comments[2].side = "RIGHT"
    /\ Len(CandidatesOf(structured)) = 2
    /\ Len(calls) = 1 /\ calls[1].ok /\ calls[1].request.api = "createReview"

----------------------------------------------------------------------------
(* Properties of publication.                                              *)

IsByMain(call) == call.by = "main"
IsOk(call) == call.ok

\* The platform calls main itself has issued, and the calls that succeeded.
MainCalls == SelectSeq(calls, IsByMain)
OkCalls == SelectSeq(calls, IsOk)

\* C9: after a successful session main issues exactly one publication call,
\* chosen in this order: the fixed placeholder comment for a null review; one
\* createReview call and no conversation comment for a review with at least
\* one comment; the summary as one plain comment otherwise.  Before the
\* publication step main has issued none.
C9_PublicationChoice ==
    /\ (review = Unset \/ pc = "publish") => MainCalls = <<>>
    /\ (review # Unset /\ pc # "publish") =>
          /\ Len(MainCalls) = 1
          /\ review = Null =>
                MainCalls[1].request = CreateComment(PlaceholderEmpty)
          /\ (review # Null /\ Len(review.comments) > 0) =>
                MainCalls[1].request.api = "createReview"
          /\ (review # Null /\ Len(review.comments) = 0) =>
                MainCalls[1].request = CreateComment(review.summary)

\* C9 witness: a review with a summary and one comment was published by one
\* createReview call of main, and nothing else was written.
C9_Witness ==
    /\ pc = "exited"
    /\ review # Unset /\ review # Null
    /\ review.summary # <<>>
    /\ Len(review.comments) = 1
    /\ Len(calls) = 1
    /\ calls[1].by = "main" /\ calls[1].ok
    /\ calls[1].request.api = "createReview"

\* C10: at most one platform write ever succeeds, and an invocation that
\* ended with exit status 0 has exactly one: the inline review of main, the
\* plain comment of main (summary or placeholder), or the error comment of
\* the failure handler.
C10_ExactlyOneWrite ==
    /\ Len(OkCalls) <= 1
    /\ (pc = "exited" /\ exitStatus = 0) =>
          /\ Len(OkCalls) = 1
          /\ \/ /\ OkCalls[1].by = "main"
                /\ OkCalls[1].request.api = "createReview"
                /\ Len(OkCalls[1].request.comments) > 0
                /\ Len(calls) = 1
             \/ /\ OkCalls[1].by = "main"
                /\ OkCalls[1].request.api = "createComment"
                /\ \/ review = Null /\ OkCalls[1].request.body = PlaceholderEmpty
                   \/ review # Null /\ OkCalls[1].request.body = review.summary
                /\ Len(calls) = 1
             \/ /\ OkCalls[1].by = "catch"
                /\ OkCalls[1].request = CreateComment(ErrorCommentBody(err))
                /\ \A k \in 1..Len(calls) : calls[k].by = "main" => ~calls[k].ok

\* C10 witness: the createReview call of main failed, the error comment of
\* the handler succeeded, and the process exited with status 0.
C10_Witness ==
    /\ pc = "exited" /\ exitStatus = 0
    /\ Len(calls) = 2
    /\ calls[1].by = "main" /\ ~calls[1].ok /\ calls[1].request.api = "createReview"
    /\ calls[2].by = "catch" /\ calls[2].ok /\ calls[2].request.api = "createComment"

----------------------------------------------------------------------------
(* Properties of the failure handler.                                      *)

IsByCatch(call) == call.by = "catch"

\* The calls the failure handler has issued.
CatchCalls == SelectSeq(calls, IsByCatch)

\* The pieces of the inputs that hold the text of a pattern, in the letter
\* cases the inputs use.
CreditTexts ==
    {"credit balance is too low", "Credit Balance Is Too Low",
     "Credit balance is too low"}
ModelTexts == {"model:", "MODEL:", "Model: x Not_Found"}
NotFoundTexts == {"not_found", "NOT_FOUND", "Model: x Not_Found"}

Mentions(message, texts) == \E i \in 1..Len(message) : message[i] \in texts

\* The category the classification rules give a message, the credit rule
\* first.
ExpectedCategory(message) ==
    IF Mentions(message, CreditTexts) THEN "CreditExhausted"
    ELSE IF Mentions(message, ModelTexts) /\ Mentions(message, NotFoundTexts)
         THEN "ModelNotFound"
         ELSE "Generic"

\* The category an error comment was templated for, read off its heading.
CategoryOfBody(body) ==
    CASE body[1] = "[warn] could not call the API: credit exhausted" -> "CreditExhausted"
      [] body[1] = "[warn] could not call the API: model not found" -> "ModelNotFound"
      [] body[1] = "[warn] the review bot failed" -> "Generic"
      [] OTHER -> "none"

\* C11: when the createReview call of main fails, main issues no further
\* call (no plain comment carrying the summary), nothing of the batch is on
\* the thread, and the handler receives the error, classifies it Generic and
\* issues one error comment.
C11_ReviewFailurePropagates ==
    (MainCalls # <<>> /\ MainCalls[1].request.api = "createReview" /\ ~MainCalls[1].ok)
        => /\ Len(MainCalls) = 1
           /\ \A k \in 1..Len(thread) :
                 thread[k].by # 0 => thread[k].api # "createReview"
           /\ \A k \in 1..Len(thread) :
                 thread[k].by # 0 => thread[k].body # MainCalls[1].request.body
           /\ err \in {Error(e) : e \in PlatformErrors}
           /\ pc \in {"catch", "exited"}
           /\ pc = "exited" =>
                 /\ Len(CatchCalls) = 1
                 /\ CategoryOfBody(CatchCalls[1].request.body) = "Generic"

\* C11 witness: a review with a summary and two comments was refused by the
\* platform and the Generic error comment is the only entry written.
C11_Witness ==
    /\ pc = "exited"
    /\ Len(calls) = 2
    /\ calls[1].by = "main" /\ ~calls[1].ok
    /\ calls[1].request.api = "createReview"
    /\ Len(calls[1].request.comments) = 2
    /\ review.summary # <<>>
    /\ calls[2].by = "catch" /\ calls[2].ok
    /\ CategoryOfBody(calls[2].request.body) = "Generic"
    /\ Len(thread) = 1

\* C12: the error comment of the handler is the one of CreditExhausted when
\* the message contains "credit balance is too low" in any letter case, of
\* ModelNotFound when it contains both "model:" and "not_found" in any letter
\* case, and of Generic otherwise, also when it contains only one of the two.
C12_Classification ==
    \A k \in 1..Len(CatchCalls) :
        CategoryOfBody(CatchCalls[k].request.body) = ExpectedCategory(err.message)

\* C12 witness: an error whose message holds "MODEL:" and "NOT_FOUND" in
\* upper case was answered with the ModelNotFound comment.
C12_Witness ==
    /\ pc = "exited"
    /\ err # Unset
    /\ Mentions(err.message, {"MODEL:"}) /\ Mentions(err.message, {"NOT_FOUND"})
    /\ Len(CatchCalls) = 1
    /\ CategoryOfBody(CatchCalls[1].request.body) = "ModelNotFound"

\* C13 as stated: after any publication attempt, successful or not, the
\* process exits with status 0.
C13_Original == (pc = "exited" /\ calls # <<>>) => exitStatus = 0

\* C13 amended: after a publication attempt the process is about to exit
\* (main has resolved) or the handler has the error; it exits with status 0
\* when its last attempt succeeded, and with status 1 only when the error
\* comment of the handler could not be posted.
C13_ExitStatus ==
    /\ (pc # "exited" /\ calls # <<>>) =>
          /\ pc \in {"resolved", "catch"}
          /\ pc = "resolved" <=> calls[Len(calls)].ok
          /\ pc = "catch" => (err # Unset /\ calls[Len(calls)].by = "main")
    /\ (pc = "exited" /\ calls # <<>>) =>
          /\ exitStatus \in {0, 1}
          /\ exitStatus = 0 <=> calls[Len(calls)].ok
          /\ exitStatus = 1 => calls[Len(calls)].by = "catch"

\* C13 witness: the publication of main failed, the error comment of the
\* handler failed too, and the process ended with status 1.
C13_Witness ==
    /\ pc = "exited" /\ exitStatus = 1
    /\ Len(calls) = 2
    /\ calls[1].by = "main" /\ ~calls[1].ok
    /\ calls[2].by = "catch" /\ ~calls[2].ok

\* A failure result ended the session with a message of neither pattern.
GenericFailure ==
    FailureTaken /\ err # Unset /\ ExpectedCategory(err.message) = "Generic"

\* C18 as stated: after a failure result message whose text matches neither
\* pattern nothing of main is published, the only write is one Generic
\* error comment, and the process then exits with status 0.
C18_Original ==
    GenericFailure =>
        /\ MainCalls = <<>>
        /\ \A k \in 1..Len(calls) :
              CategoryOfBody(calls[k].request.body) = "Generic"
        /\ pc = "exited" => (Len(calls) = 1 /\ exitStatus = 0)

\* C18 amended: after a failure result message whose text matches neither
\* the credit nor the model pattern, whatever assistant text was captured
\* before it, the session raises, no review is built, main writes nothing,
\* and the only write is one Generic error comment, after which the process
\* has exited: with status 0 when that comment was posted, with status 1
\* when the platform refused it.
C18_GenericFailureOnlyErrorComment ==
    FailureTaken =>
        /\ err # Unset
        /\ ExpectedCategory(err.message) = "Generic" =>
              /\ review = Unset
              /\ MainCalls = <<>>
              /\ Len(calls) <= 1
              /\ pc \in {"catch", "exited"}
              /\ pc = "exited" <=> Len(calls) = 1
              /\ \A k \in 1..Len(calls) :
                    /\ calls[k].by = "catch"
                    /\ calls[k].request.api = "createComment"
                    /\ CategoryOfBody(calls[k].request.body) = "Generic"
                    /\ calls[k].ok => exitStatus = 0
                    /\ calls[k].ok => thread = <<Entry(1, calls[k].request)>>
                    /\ ~calls[k].ok => exitStatus = 1
                    /\ ~calls[k].ok => thread = <<>>

\* C18 witness: an assistant text was captured, the session then ended with
\* error_max_turns and is_error true, and the Generic error comment was
\* posted before the exit with status 0.
C18_Witness ==
    /\ pc = "exited" /\ exitStatus = 0
    /\ pos = 2
    /\ stream[1].type = "assistant" /\ assistantFallback # <<>>
    /\ stream[2].type = "result"
    /\ stream[2].subtype = "error_max_turns" /\ stream[2].is_error
    /\ Len(calls) = 1 /\ calls[1].ok
    /\ CategoryOfBody(calls[1].request.body) = "Generic"

----------------------------------------------------------------------------
(* Properties of the user request.                                         *)

\* The mention token in the letter cases the inputs use.
MentionTexts == {"@review-bot", "@Review-Bot", "@REVIEW-BOT"}

\* The positions of the mention token in a body.
MentionPositions(body) == {i \in 1..Len(body) : body[i] \in MentionTexts}

Max(S) == CHOOSE x \in S : \A y \in S : y <= x
Min(S) == CHOOSE x \in S : \A y \in S : x <= y

\* The text after position i of a body, without the white space around it.
TextAfter(body, i) == Trim(SubSeq(body, i + 1, Len(body)))

\* The request was fetched and nothing was written to the thread since.
RequestFetched == fetches # <<>> /\ calls = <<>>

\* The block of the prompt that carries an instruction.
BlockWith(instruction) ==
    <<"user instructions:", "\n">> \o instruction
    \o <<"\n", "- reflect the requirements above faithfully">>

\* The conversation comments of the thread that mention the bot.
MentioningComments == {i \in 1..Len(thread) : MentionPositions(thread[i].body) # {}}

\* C16 as stated: when the listing answers, the instruction is the text after
\* the last occurrence of the token in the most recent comment that contains
\* it, and the neutral marker is used when no comment contains the token.
C16_Original ==
    (RequestFetched /\ fetches[1].ok) =>
        IF MentioningComments = {}
        THEN userRequestBlock = NoUserRequestBlock
        ELSE LET body == thread[Max(MentioningComments)].body
             IN  userRequestBlock = BlockWith(TextAfter(body, Max(MentionPositions(body))))

\* The comments of the page the listing returns whose text after the first
\* occurrence of the token is not empty once trimmed.
InstructingComments ==
    {i \in 1..Len(ListComments(thread)) :
        LET body == ListComments(thread)[i].body
        IN  /\ MentionPositions(body) # {}
            /\ TextAfter(body, Min(MentionPositions(body))) # <<>>}

\* C16 amended: the request is taken from the one page of at most 100
\* comments the listing returns; it is the trimmed text after the first
\* occurrence of the token, in any letter case, in the most recent comment of
\* that page where this text is not empty; the neutral marker is used when
\* there is no such comment and when the listing fails.
C16_LatestUserRequest ==
    RequestFetched =>
        IF fetches[1].ok /\ InstructingComments # {}
        THEN LET body == ListComments(thread)[Max(InstructingComments)].body
                 instruction == TextAfter(body, Min(MentionPositions(body)))
             IN  /\ userRequest = Str(instruction)
                 /\ userRequestBlock = BlockWith(instruction)
        ELSE /\ userRequest = Null
             /\ userRequestBlock = NoUserRequestBlock

\* C16 witness: the most recent comment mentions the bot without an
\* instruction, the older one mentions it twice, and the request is the text
\* after the first mention of the older one.
C16_Witness ==
    /\ RequestFetched /\ fetches[1].ok
    /\ Len(thread) = 2
    /\ thread[2].body = <<"thanks", " ", "@review-bot", " ">>
    /\ Cardinality(MentionPositions(thread[1].body)) = 2
    /\ userRequest = Str(<<"first", " ", "@review-bot", " ", "second">>)

----------------------------------------------------------------------------
(* Properties of the single-call scripts.                                  *)

\* What the truncation is said to return: the text itself when it is not
\* longer than the bound, else as many characters of the text as the bound
\* says, then the marker.
ExpectedClip(text, maxChars) ==
    IF Len(text) <= maxChars THEN text
    ELSE [i \in 1..(maxChars + Len(TruncationMarker)) |->
             IF i <= maxChars THEN text[i] ELSE TruncationMarker[i - maxChars]]

\* The diff was fetched, so main has clipped it.
DiffClipped ==
    /\ script \in {"single-call", "basic"}
    /\ \E i \in 1..Len(fetches) : fetches[i].api = "pulls.diff" /\ fetches[i].ok
    /\ \E i \in 1..Len(fetches) : fetches[i].api = "pulls.get" /\ fetches[i].ok

\* C15: for every text and every bound that is a count of characters, clip
\* (of both scripts) returns the text unchanged when it is not longer than
\* the bound, and otherwise the first maxChars characters followed by a blank
\* line and '...(truncated)...'; so does the clipped diff of main.
C15_Clip ==
    /\ DiffClipped =>
          clippedDiff = ExpectedClip(diff, IF script = "basic" THEN BasicMaxDiffChars
                                           ELSE maxDiffChars)
    /\ \A n \in 0..(MaxChars + 1) :
          /\ clip(diff, n) = ExpectedClip(diff, n)
          /\ clip_part_001(diff, n) = ExpectedClip(diff, n)

\* C15 witness: a diff of three characters was clipped to its first two.
C15_Witness ==
    /\ DiffClipped
    /\ script = "single-call"
    /\ Len(diff) = 3 /\ maxDiffChars = 2
    /\ clippedDiff = <<diff[1], diff[2], "\n", "\n", "...(truncated)...">>

\* The model answered with a content whose text is empty.
EmptyResponse ==
    IF script = "structured" THEN review = Null
    ELSE IF script = "agent-text" THEN textOfMain = Str(<<>>)
    ELSE /\ response # Unset
         /\ response.content.t = "array"
         /\ TextOfResponse(response) = Returned(<<>>)

\* The call of the model failed.
ModelCallFailed ==
    IF script \in {"structured", "agent-text"}
    THEN FailureTaken
    ELSE \E i \in 1..Len(fetches) :
            fetches[i].api = "messages.create" /\ ~fetches[i].ok

\* No call to the platform was refused.
PlatformAnswers ==
    /\ \A i \in 1..Len(calls) : calls[i].ok
    /\ \A i \in 1..Len(fetches) : fetches[i].api # "messages.create" => fetches[i].ok

\* C14 as stated: in every script, when the platform accepts what is posted,
\* an empty response ends in the placeholder comment and a failed model call
\* in an error comment, and the process exits with status 0.
C14_Original ==
    (pc = "exited" /\ PlatformAnswers /\ (EmptyResponse \/ ModelCallFailed)) =>
        /\ exitStatus = 0
        /\ Len(calls) = 1
        /\ EmptyResponse => calls[1].request = CreateComment(PlaceholderEmpty)
        /\ ModelCallFailed => calls[1].by = "catch"

\* The calls that fetch the context of the review.
IsContextFetch(fetch) == fetch.api \in {"listComments", "pulls.get", "pulls.diff"}
ContextFetches == SelectSeq(fetches, IsContextFetch)

IsModelCall(fetch) == fetch.api = "messages.create"
ModelCalls == SelectSeq(fetches, IsModelCall)

\* A context fetch was refused.
ContextFetchFailed == \E i \in 1..Len(ContextFetches) : ~ContextFetches[i].ok

\* The publication of main was refused.
PublicationFailed == \E i \in 1..Len(MainCalls) : ~MainCalls[i].ok

\* C17 as stated: after a failure of the agent session, of a publication
\* write of main or of a context fetch, the fetch of the existing comments
\* included, control is with the failure handler, which posts one error
\* comment.
C17_Original ==
    (ModelCallFailed \/ PublicationFailed \/ ContextFetchFailed) =>
        /\ pc \in {"catch", "catch.postComment", "exited"}
        /\ pc = "exited" => Len(CatchCalls) = 1

\* A failure that ends main: of the session, of main's publication, or of
\* the fetch of the title, the description or the diff.
TerminalFailure ==
    \/ ModelCallFailed
    \/ PublicationFailed
    \/ \E i \in 1..Len(fetches) :
          fetches[i].api \in {"pulls.get", "pulls.diff"} /\ ~fetches[i].ok

\* Nothing is asked twice.
C17_NoRetry ==
    /\ \A i, j \in 1..Len(fetches) : fetches[i].api = fetches[j].api => i = j
    /\ Len(MainCalls) <= 1
    /\ Len(CatchCalls) <= 1

\* Where control is after an error was raised, and what the handler did.
C17_Terminal ==
    /\ TerminalFailure => err # Unset
    /\ err # Unset => pc \in {"catch", "catch.postComment", "exited"}
    /\ (err # Unset /\ pc = "exited") =>
          /\ Len(CatchCalls) = 1
          /\ calls[Len(calls)].by = "catch"
          /\ CategoryOfBody(CatchCalls[1].request.body)
                \in {"CreditExhausted", "ModelNotFound", "Generic"}

\* What a step may do: a failed listing of the comments is not raised, and
\* once an error was raised main does nothing more.
C17_Step ==
    /\ pc = "fetchLatestUserRequest" =>
          /\ pc' = "runClaudeReview" /\ err' = Unset
          /\ ~fetches'[1].ok =>
                userRequest' = Null /\ userRequestBlock' = NoUserRequestBlock
    /\ err # Unset =>
          /\ err' = err
          /\ pos' = pos /\ review' = review
          /\ MainCalls' = MainCalls
          /\ ContextFetches' = ContextFetches
          /\ ModelCalls' = ModelCalls

\* C17 amended: no operation is retried; a failure of the session or of the
\* model call, of main's publication, or of the fetch of the title, the
\* description or the diff is terminal: main starts nothing more and the
\* handler runs, posting one classified error comment; a failed fetch of the
\* existing comments is not terminal: the request is taken as absent and the
\* review goes on.
C17_FailuresTerminal ==
    /\ [](C17_NoRetry /\ C17_Terminal)
    /\ [][C17_Step]_vars

\* C17 witness: the listing of the comments failed, the review went on, its
\* publication was refused, and the handler posted one error comment.
C17_Witness ==
    /\ pc = "exited"
    /\ script = "structured"
    /\ fetches = <<[api |-> "listComments", ok |-> FALSE]>>
    /\ userRequest = Null
    /\ Len(calls) = 2
    /\ calls[1].by = "main" /\ ~calls[1].ok
    /\ calls[2].by = "catch" /\ calls[2].ok
    /\ review # Unset /\ review # Null

----------------------------------------------------------------------------
(* Properties of concurrent invocations and of the tool approval.          *)

\* The entries of the thread that invocation i wrote.
EntriesBy(i) ==
    LET Wrote(entry) == entry.by = i
    IN  SelectSeq(thread, Wrote)

\* The calls of invocation i that the platform accepted.
OkCallsBy(i) == SelectSeq(invs[i].calls, IsOk)

\* The entries not written by an invocation.
IsHuman(entry) == entry.by = 0
HumanEntries == SelectSeq(thread, IsHuman)

\* The thread keeps every entry it has and gains at most one at its end.
OnlyAppended ==
    \/ thread' = thread
    \/ /\ Len(thread') = Len(thread) + 1
       /\ SubSeq(thread', 1, Len(thread)) = thread

\* A step in which a call of some invocation is accepted adds exactly one
\* entry, and every other step adds none.
OneEntryPerWrite ==
    LET accepted == \E i \in Invocations :
                       /\ Len(invs'[i].calls) = Len(invs[i].calls) + 1
                       /\ invs'[i].calls[Len(invs'[i].calls)].ok
    IN  Len(thread') = Len(thread) + (IF accepted THEN 1 ELSE 0)

\* C19: in every interleaving of two invocations the thread is only appended
\* to: no existing entry is changed or removed, every accepted write adds
\* exactly one entry, and the entries of each invocation are exactly its own
\* accepted requests, in its own order, whatever the other invocation does.
C19_AppendOnly ==
    /\ [][OnlyAppended /\ OneEntryPerWrite]_vars
    /\ [](\A i \in Invocations :
             EntriesBy(i) = [k \in 1..Len(OkCallsBy(i)) |->
                                Entry(i, OkCallsBy(i)[k].request)])
    /\ [](Len(thread) = Len(HumanEntries) + Len(OkCallsBy(1)) + Len(OkCallsBy(2)))

\* C19 witness: after a human comment, the publication of invocation 1 was
\* refused, invocation 2 posted the same review, and invocation 1 posted its
\* error comment after that.
C19_Witness ==
    /\ pc = "concurrent"
    /\ \A i \in Invocations : invs[i].pc = "exited"
    /\ invs[1].review = invs[2].review
    /\ Len(thread) = 3
    /\ thread[1].by = 0 /\ thread[2].by = 2 /\ thread[3].by = 1
    /\ thread[2].api = "createReview"
    /\ Len(invs[1].calls) = 2 /\ ~invs[1].calls[1].ok

\* C20: autoApproveToolRequest answers 'allow', never 'deny', for every tool
\* name and input, and returns the proposed input when it is a non-null
\* object (an array included) and an empty object otherwise.
C20_AlwaysAllow ==
    \A k \in 1..Len(decisions) :
        /\ decisions[k].decision.behavior = "allow"
        /\ decisions[k].decision.behavior # "deny"
        /\ decisions[k].decision.updatedInput =
              IF decisions[k].input.t \in {"null", "undefined", "string", "number", "boolean"}
              THEN EmptyObject
              ELSE decisions[k].input

\* C20 witness: a Bash call with an object input and a call with a null
\* input were both allowed, the first with its input, the second with {}.
C20_Witness ==
    /\ Len(decisions) = 2
    /\ decisions[1].toolName = "Bash"
    /\ decisions[1].input = [t |-> "object", command |-> Str(<<"rm", " ", "-rf">>)]
    /\ decisions[1].decision = [behavior |-> "allow", updatedInput |-> decisions[1].input]
    /\ decisions[2].input = Null
    /\ decisions[2].decision = [behavior |-> "allow", updatedInput |-> EmptyObject]

----------------------------------------------------------------------------
(* Properties of the classification across the scripts, of the review      *)
(* request and of the defensive branches of main.                          *)

\* C21 as stated: the handler of the single-call script chooses for every
\* error message the category the handlers of the agent scripts choose:
\* CreditExhausted for the credit text, ModelNotFound for "model:" together
\* with "not_found" in any letter case, Generic otherwise.
C21_Original ==
    script = "single-call" =>
        \A k \in 1..Len(CatchCalls) :
            /\ CategoryOfBody(CatchCalls[k].request.body) = ExpectedCategory(err.message)
            /\ CategoryOfBody(CatchCalls[k].request.body) = Classify(err)

\* The comments of a createReview request are those of the Review, in
\* order, with the same path, line and side, the body prefixed with the
\* severity in parentheses when there is one.
CarriesComments(request, rv) ==
    /\ Len(request.comments) = Len(rv.comments)
    /\ \A i \in 1..Len(rv.comments) :
          /\ request.comments[i].path = rv.comments[i].path
          /\ request.comments[i].line = rv.comments[i].line
          /\ request.comments[i].side = rv.comments[i].side
          /\ request.comments[i].body =
                IF rv.comments[i].severity = <<>>
                THEN rv.comments[i].body
                ELSE <<"(">> \o rv.comments[i].severity
                     \o <<")", " ">> \o rv.comments[i].body

\* C22 as stated: the createReview call carries the summary of the Review as
\* its body, also when the summary is empty, and every comment of the Review.
C22_Original ==
    \A k \in 1..Len(calls) :
        calls[k].request.api = "createReview" =>
            /\ calls[k].request.body = review.summary
            /\ CarriesComments(calls[k].request, review)

\* C22 amended: the createReview call carries the summary of the Review as
\* its body when the summary is not empty and the fixed title
\* "automatic code review" when it is empty; it carries every comment of the
\* Review, in order, with unchanged path, line and side, the body prefixed
\* with the severity in parentheses when a severity is present.
C22_ReviewRequest ==
    \A k \in 1..Len(calls) :
        calls[k].request.api = "createReview" =>
            /\ review.summary # <<>> => calls[k].request.body = review.summary
            /\ review.summary = <<>> =>
                  calls[k].request.body = <<"automatic code review">>
            /\ CarriesComments(calls[k].request, review)

\* C22 witness: a Review with an empty summary and a comment of severity
\* High on the LEFT side was sent with the fixed title as its body.
C22_Witness ==
    /\ review # Unset /\ review # Null
    /\ review.summary = <<>>
    /\ Len(calls) >= 1
    /\ calls[1].request.api = "createReview"
    /\ calls[1].request.body = <<"automatic code review">>
    /\ Len(review.comments) = 2
    /\ review.comments[1].severity = <<"High">>
    /\ calls[1].request.comments[1].body = <<"(", "High", ")", " ", "rename">>
    /\ calls[1].request.comments[1].side = "LEFT"
    /\ review.comments[2].severity = <<>>

\* A line (held as twice its value) that is an integer and at least 1.
IntegerLine(line) ==
    /\ line.t = "number"
    /\ DOMAIN line = {"t", "twice"}
    /\ line.twice % 2 = 0
    /\ line.twice >= 2

\* C23 as stated: every comment of a request main sends has a line that is
\* an integer >= 1, and every candidate normalization keeps had a line that
\* was a number and an integer: non-integer numbers and values that are no
\* numbers are dropped.
C23_Original ==
    /\ \A k \in 1..Len(calls) :
          \A i \in 1..Len(calls[k].request.comments) :
              IntegerLine(calls[k].request.comments[i].line)
    /\ (review # Unset /\ review # Null) =>
          LET kept == KeptPositions(CandidatesOf(structured), 1)
          IN  \A i \in 1..Len(kept) :
                  IntegerLine(Prop(CandidatesOf(structured)[kept[i]], "line"))

\* The headings of the three templated error comments.
HeadingTexts ==
    {"[warn] could not call the API: credit exhausted",
     "[warn] could not call the API: model not found",
     "[warn] the review bot failed"}

\* C24 as stated: in every failure handler the credit test comes first and
\* the categories exclude each other: a message with the credit text is
\* answered with the CreditExhausted comment even when it also holds
\* "model:" and "not_found", a message without it with the ModelNotFound or
\* the Generic comment, and each handled error gets exactly one comment,
\* built from exactly one of the three templates.
C24_Original ==
    /\ Len(CatchCalls) <= 1
    /\ \A k \in 1..Len(CatchCalls) :
          LET body == CatchCalls[k].request.body
          IN  /\ CatchCalls[k].request.api = "createComment"
              /\ Cardinality({i \in 1..Len(body) : body[i] \in HeadingTexts}) = 1
              /\ body[1] \in HeadingTexts
              /\ Mentions(err.message, CreditTexts) =>
                    CategoryOfBody(body) = "CreditExhausted"
              /\ ~Mentions(err.message, CreditTexts) =>
                    CategoryOfBody(body) \in {"ModelNotFound", "Generic"}
    /\ (pc = "exited" /\ err # Unset) => Len(CatchCalls) = 1

\* C25: for every agent output the two defensive branches of main are never
\* taken: no comment carries the "(no summary)" text, because a non-null
\* Review without comments has a non-empty summary, and the error
\* "No review comments to post" is never raised, because postReviewComments
\* is reached only with at least one comment.
C25_DefensiveBranchesUnreachable ==
    /\ \A k \in 1..Len(calls) :
          /\ calls[k].request.body # <<"could not generate a review (no summary)">>
          /\ calls[k].request.api = "createReview" => Len(review.comments) > 0
    /\ \A k \in 1..Len(thread) :
          thread[k].body # <<"could not generate a review (no summary)">>
    /\ err # Unset => err.message # <<"No review comments to post">>
    /\ (review # Unset /\ review # Null /\ Len(review.comments) = 0) =>
          /\ review.summary # <<>>
          /\ \A k \in 1..Len(MainCalls) :
                MainCalls[k].request = CreateComment(review.summary)

\* C25 witness: a payload whose candidates were all dropped and whose summary
\* is blank left the fallback text as the summary, and main posted it in the
\* summary-only branch.
C25_Witness ==
    /\ pc = "exited"
    /\ review # Unset /\ review # Null
    /\ Len(review.comments) = 0
    /\ Len(CandidatesOf(structured)) = 2
    /\ fallbackText # <<>>
    /\ review.summary = Trim(fallbackText)
    /\ calls = <<[by |-> "main", ok |-> TRUE, request |-> CreateComment(review.summary)]>>


====
